---- MODULE Spec2Model ----
(***************************************************************************)
(* flowgger data plane: the bounded queue between the splitter threads and *)
(* the output workers, the TLS output worker with its reconnect policy,    *)
(* and the rotating file writer.                                           *)
(***************************************************************************)
EXTENDS Integers, Sequences, FiniteSets, TLC

(***************************************************************************)
(* Bounds of the exploration.                                              *)
(***************************************************************************)
\* largest input.queuesize explored
MaxQueue == 2
\* input connections that the accept loop may hand to a splitter thread
MaxConns == 2
\* frames that one connection delivers before end of input
MaxFrames == 2
\* largest number of output worker threads (tls_threads, kafka_threads)
MaxThreads == 2
\* the wall clock stops advancing at this value (milliseconds)
MaxNow == 2
\* largest output.tls_recovery_delay_max explored (milliseconds)
MaxDelay == 2
\* resolution of the f64 recovery delay: sub-steps per millisecond
JitterScale == 2

\* largest number of entries of output.connect
NPeers == 2
\* output.tls_recovery_probe_time explored (milliseconds)
ProbeTime == 1
\* largest output.file_rotation_size explored (bytes)
MaxSize == 2
\* largest output.file_rotation_maxfiles explored
MaxFiles == 2
\* longest byte vector handed to RotatingFile::write
MaxLen == 3
\* RotatingFile::write calls explored
MaxWrites == 4
\* items that the Redis lists hold
MaxItems == 3
\* bytes that one connection delivers
MaxStream == 6
\* bytes of a vector that a merger frames
MaxBody == 9
\* characters of a priority or a level
MaxDigits == 3
\* characters between the quotes of a structured data value
MaxValue == 3
MaxPairs == 2
MaxBlocks == 2
MaxDatagrams == 1
MaxLines == 2
MaxTailers == 3

VARIABLES
    config,          \* the parsed configuration (mod.rs start, config_parse)
    now,             \* wall clock, chrono::offset::Utc::now()
    tx_main,         \* the accept loop still owns its SyncSender
    spc,             \* position of each splitter thread
    nread,           \* frames a connection has delivered so far
    reencoded,       \* the vector a splitter is about to send
    queue,           \* buffer of the sync_channel
    sent,            \* every vector whose send() returned Ok, in order
    taken,           \* every vector returned by recv(), with its worker
    arx,             \* holder of the Mutex<Receiver> (0 = free)
    wpc,             \* position of each output worker thread
    bytes,           \* the vector an output worker holds
    sink,            \* vectors each worker has written to its sink
    cluster,         \* Cluster { connect, idx } behind mx_cluster
    last_recovery,   \* TlsWorker::run local
    recovery_delay,  \* TlsWorker::run local, in 1/JitterScale ms
    attempts,        \* history: the peers of the first selections since startup
    kqueue,          \* KafkaWorker.queue: the records a Kafka worker has buffered
    rfile,           \* the RotatingFile struct
    files,           \* the directory: content of every file that exists
    last_write,      \* the latest RotatingFile::write call and its result
    redis,           \* the Redis lists and the position of a RedisWorker
    splitter,        \* a splitter reading the bytes of one connection
    framing,         \* the merger start() chose and a vector it frames
    decoding,        \* a decoder or the capnp splitter at work on one record
    encoding,        \* an encoder at work on one Record
    input            \* a UDP input or a file discovery at work

vars == <<config, now, tx_main, spc, nread, reencoded, queue, sent, taken,
          arx, wpc, bytes, sink, cluster, last_recovery, recovery_delay, attempts,
          kqueue,
          rfile, files, last_write, redis, splitter, framing, decoding,
          encoding, input>>

prodVars == <<tx_main, spc, nread, reencoded>>
tlsVars == <<cluster, last_recovery, recovery_delay, attempts, kqueue>>
fileVars == <<rfile, files, last_write>>
pipeVars == <<config, now, prodVars, queue, sent, taken, arx, wpc, bytes, sink, tlsVars>>
notRedis == <<config, now, tx_main, spc, nread, reencoded, queue, sent, taken,
              arx, wpc, bytes, sink, cluster, last_recovery, recovery_delay, attempts,
          kqueue,
              rfile, files, last_write, splitter, framing, decoding,
              encoding, input>>
notSplitter == <<config, now, tx_main, spc, nread, reencoded, queue, sent, taken,
                 arx, wpc, bytes, sink, cluster, last_recovery, recovery_delay, attempts,
          kqueue,
                 rfile, files, last_write, redis, framing, decoding,
                 encoding, input>>
notFraming == <<pipeVars, fileVars, redis, splitter, decoding, encoding, input>>
notDecoding == <<pipeVars, fileVars, redis, splitter, framing, encoding, input>>
notEncoding == <<pipeVars, fileVars, redis, splitter, framing, decoding, input>>
notInput == <<pipeVars, fileVars, redis, splitter, framing, decoding, encoding>>
auxVars == <<redis, splitter, framing, decoding, encoding, input>>

Conns == 1..MaxConns
Threads == 1..MaxThreads
NoBytes == <<>>

\* worker threads that output.start() spawned
Workers == 1..config.threads

\* all orders of a list of n peers (rng.shuffle)
Shuffles(n) == {s \in [1..n -> 1..n] : \A i, j \in 1..n : i # j => s[i] # s[j]}

\* f64::round of a delay kept in 1/JitterScale ms (half away from zero)
Round(d) == (2 * d + JitterScale) \div (2 * JitterScale)

\* every SyncSender clone has been dropped
Disconnected == ~tx_main /\ \A p \in Conns : spc[p] \in {"none", "done", "panicked", "killed"}

\* the Receiver is dropped once no worker thread owns the Arc any more
ReceiverDropped == \A w \in Workers : wpc[w] \in {"exited", "panicked", "killed"}


(***************************************************************************)
(* Input side: accept loop and splitter threads.                           *)
(***************************************************************************)

\* tcp_input.rs accept: a new connection gets a clone of tx and a thread
Accept(p) ==
    /\ tx_main
    /\ p <= config.clients
    /\ spc[p] = "none"
    /\ spc' = [spc EXCEPT ![p] = "read"]
    /\ UNCHANGED <<auxVars, fileVars, config, now, tx_main, nread, reencoded, queue, sent, taken,
                   arx, wpc, bytes, sink, tlsVars>>

\* the accept loop ends (stdin reaches end of input): its handle is dropped
AcceptReturns ==
    /\ tx_main
    /\ tx_main' = FALSE
    /\ UNCHANGED <<auxVars, fileVars, config, now, spc, nread, reencoded, queue, sent, taken,
                   arx, wpc, bytes, sink, tlsVars>>

\* LineSplitter::run, one turn of `for line in buf_reader.lines()`
SplitterRead(p) ==
    /\ spc[p] = "read"
    /\ \E res \in {"line", "eof", "interrupted", "invalid_utf8", "would_block", "other_io"} :
         \/ /\ res = "line"
            /\ nread[p] < MaxFrames
            /\ nread' = [nread EXCEPT ![p] = @ + 1]
            /\ spc' = [spc EXCEPT ![p] = "handle"]
         \/ /\ res = "invalid_utf8"
            /\ nread[p] < MaxFrames
            /\ nread' = [nread EXCEPT ![p] = @ + 1]
            /\ spc' = spc
         \/ /\ res = "interrupted"
            /\ UNCHANGED <<nread, spc>>
         \/ /\ res \in {"eof", "would_block", "other_io"}
            /\ spc' = [spc EXCEPT ![p] = "done"]
            /\ nread' = nread
    /\ UNCHANGED <<auxVars, fileVars, config, now, tx_main, reencoded, queue, sent, taken,
                   arx, wpc, bytes, sink, tlsVars>>

\* the result of decoder.decode(line)? and encoder.encode(decoded)?
handle_line_result(res) == IF res = "ok" THEN "send" ELSE "read"

\* handle_line up to the send: a failing decode or encode returns Err,
\* which run() logs before it goes on with the next line
handle_line(p) ==
    /\ spc[p] = "handle"
    /\ \E res \in {"ok", "decode_err", "encode_err"} :
         /\ spc' = [spc EXCEPT ![p] = handle_line_result(res)]
         /\ reencoded' = [reencoded EXCEPT ![p] =
                              IF res = "ok" THEN <<p, nread[p]>> ELSE NoBytes]
    /\ UNCHANGED <<auxVars, fileVars, config, now, tx_main, nread, queue, sent, taken,
                   arx, wpc, bytes, sink, tlsVars>>

SendBlocked_OffByOne == Len(queue) > config.queue_size

\* sync_channel: send blocks while the buffer holds queue_size vectors
SendBlocked == Len(queue) >= config.queue_size

\* tx.send(reencoded).unwrap()
Send(p) ==
    /\ spc[p] = "send"
    /\ IF ReceiverDropped
         THEN /\ spc' = [spc EXCEPT ![p] = "panicked"]
              /\ UNCHANGED <<queue, sent>>
         ELSE /\ ~SendBlocked
              /\ queue' = Append(queue, reencoded[p])
              /\ sent' = Append(sent, reencoded[p])
              /\ spc' = [spc EXCEPT ![p] = "read"]
    /\ reencoded' = [reencoded EXCEPT ![p] = NoBytes]
    /\ UNCHANGED <<auxVars, fileVars, config, now, tx_main, nread, taken,
                   arx, wpc, bytes, sink, tlsVars>>

(***************************************************************************)
(* Output side: the receiver shared behind a mutex.                        *)
(***************************************************************************)

\* arx.lock().unwrap(): the guard lives until recv() has returned
Lock(w) ==
    /\ wpc[w] = "lock"
    /\ arx = 0
    /\ arx' = w
    /\ wpc' = [wpc EXCEPT ![w] = "recv"]
    /\ UNCHANGED <<auxVars, fileVars, config, now, prodVars, queue, sent, taken, bytes, sink, tlsVars>>

\* where a worker goes when recv() returns Err
OnRecvErr == IF config.output_type = "tls" THEN "session_end" ELSE "exited"

RecvFront_Peek(q) == [line |-> Head(q), rest |-> q]

RecvFront_Lifo(q) == [line |-> q[Len(q)], rest |-> SubSeq(q, 1, Len(q) - 1)]

\* sync_channel: recv hands out the oldest buffered vector
RecvFront(q) == [line |-> Head(q), rest |-> Tail(q)]

Recv_KeepsGuard(w) ==
    /\ wpc[w] = "recv"
    /\ arx = w
    /\ arx' = arx
    /\ IF queue # <<>>
         THEN /\ bytes' = [bytes EXCEPT ![w] = RecvFront(queue).line]
              /\ queue' = RecvFront(queue).rest
              /\ taken' = Append(taken, <<w, RecvFront(queue).line>>)
              /\ wpc' = [wpc EXCEPT ![w] = "write"]
         ELSE /\ Disconnected
              /\ wpc' = [wpc EXCEPT ![w] = OnRecvErr]
              /\ UNCHANGED <<bytes, queue, taken>>
    /\ UNCHANGED <<auxVars, fileVars, config, now, prodVars, sent, sink, tlsVars>>

\* .recv(): a vector, or Err once the buffer is empty and all senders are gone
Recv(w) ==
    /\ wpc[w] = "recv"
    /\ arx = w
    /\ arx' = 0
    /\ IF queue # <<>>
         THEN /\ bytes' = [bytes EXCEPT ![w] = RecvFront(queue).line]
              /\ queue' = RecvFront(queue).rest
              /\ taken' = Append(taken, <<w, RecvFront(queue).line>>)
              /\ wpc' = [wpc EXCEPT ![w] = "write"]
         ELSE /\ Disconnected
              /\ wpc' = [wpc EXCEPT ![w] = OnRecvErr]
              /\ UNCHANGED <<bytes, queue, taken>>
    /\ UNCHANGED <<auxVars, fileVars, config, now, prodVars, sent, sink, tlsVars>>

\* file_output.rs: writer.write_all(&bytes).expect(..)
\* debug_output.rs: println!("{}", out)
SinkWrite(w) ==
    /\ config.output_type \in {"file", "debug"}
    /\ wpc[w] = "write"
    /\ \E ok \in BOOLEAN :
         IF ok
           THEN /\ sink' = [sink EXCEPT ![w] = Append(@, bytes[w])]
                /\ wpc' = [wpc EXCEPT ![w] = "lock"]
           ELSE /\ sink' = sink
                /\ wpc' = [wpc EXCEPT ![w] = "panicked"]
    /\ bytes' = [bytes EXCEPT ![w] = NoBytes]
    /\ UNCHANGED <<auxVars, fileVars, config, now, prodVars, queue, sent, taken, arx, tlsVars>>

\* kafka_output.rs run_nocoalesce: producer.send(..), exit(1) on failure
KafkaSend(w) ==
    /\ config.output_type = "kafka"
    /\ config.coalesce <= 1
    /\ wpc[w] = "write"
    /\ \E ok \in BOOLEAN :
         IF ok
           THEN /\ sink' = [sink EXCEPT ![w] = Append(@, bytes[w])]
                /\ wpc' = [wpc EXCEPT ![w] = "lock"]
                /\ UNCHANGED <<spc, tx_main>>
           ELSE /\ sink' = sink
                /\ wpc' = [v \in Threads |-> "killed"]
                /\ spc' = [p \in Conns |-> "killed"]
                /\ tx_main' = FALSE
    /\ bytes' = [bytes EXCEPT ![w] = NoBytes]
    /\ UNCHANGED <<auxVars, fileVars, config, now, nread, reencoded, queue, sent, taken, arx, tlsVars>>

\* queue.clear() after send_all
AfterSendAll(batch) == <<>>

\* kafka_output.rs run_coalesce: queue.push(message); once coalesce records
\* are buffered, producer.send_all(queue), exit(1) on failure, queue.clear()
run_coalesce(w) ==
    /\ config.output_type = "kafka"
    /\ config.coalesce > 1
    /\ wpc[w] = "write"
    /\ LET batch == Append(kqueue[w], bytes[w])
       IN  IF Len(batch) >= config.coalesce
           THEN \E ok \in BOOLEAN :
                  IF ok
                    THEN /\ sink' = [sink EXCEPT ![w] = @ \o batch]
                         /\ kqueue' = [kqueue EXCEPT ![w] = AfterSendAll(batch)]
                         /\ wpc' = [wpc EXCEPT ![w] = "lock"]
                         /\ UNCHANGED <<spc, tx_main>>
                    ELSE /\ sink' = sink
                         /\ kqueue' = [kqueue EXCEPT ![w] = batch]
                         /\ wpc' = [v \in Threads |-> "killed"]
                         /\ spc' = [p \in Conns |-> "killed"]
                         /\ tx_main' = FALSE
           ELSE /\ kqueue' = [kqueue EXCEPT ![w] = batch]
                /\ wpc' = [wpc EXCEPT ![w] = "lock"]
                /\ UNCHANGED <<sink, spc, tx_main>>
    /\ bytes' = [bytes EXCEPT ![w] = NoBytes]
    /\ UNCHANGED <<auxVars, fileVars, config, now, nread, reencoded, queue, sent, taken, arx,
                   cluster, last_recovery, recovery_delay, attempts>>

(***************************************************************************)
(* TLS output worker: TlsWorker::run and TlsWorker::handle_connection.     *)
(***************************************************************************)

\* the wall clock advances
Tick ==
    /\ now < MaxNow
    /\ now' = now + 1
    /\ UNCHANGED <<auxVars, fileVars, config, prodVars, queue, sent, taken, arx, wpc, bytes, sink, tlsVars>>

NextPeer_PastEnd(cl, shuffled) ==
    IF cl.idx + 1 > Len(cl.connect)
      THEN [connect |-> shuffled, idx |-> 0]
      ELSE [connect |-> cl.connect, idx |-> cl.idx + 1]

\* cluster.idx += 1; reshuffle and restart at 0 past the end of the list
NextPeer(cl, shuffled) ==
    IF cl.idx + 1 >= Len(cl.connect)
      THEN [connect |-> shuffled, idx |-> 0]
      ELSE [connect |-> cl.connect, idx |-> cl.idx + 1]

AfterSelect_Dequeue(cl) == "lock"

\* cluster.connect[cluster.idx].clone() panics on an empty list of peers
AfterSelect(cl) == IF cl.idx < Len(cl.connect) THEN "connect" ELSE "panicked"

\* run(): top of the loop, last_recovery and the choice of the peer
TlsSelect(w) ==
    /\ wpc[w] = "select"
    /\ last_recovery' = [last_recovery EXCEPT ![w] = now]
    /\ \E shuffled \in Shuffles(config.connect) : cluster' = NextPeer(cluster, shuffled)
    /\ wpc' = [wpc EXCEPT ![w] = AfterSelect(cluster')]
    /\ attempts' = IF AfterSelect(cluster') = "connect" /\ Len(attempts) < Len(cluster.connect)
                   THEN Append(attempts, cluster'.connect[cluster'.idx + 1])
                   ELSE attempts
    /\ UNCHANGED <<auxVars, fileVars, config, now, prodVars, queue, sent, taken, arx, bytes, sink,
                   recovery_delay, kqueue>>

\* handle_connection: new_tcp(connect_chosen)?
TlsConnect(w) ==
    /\ wpc[w] = "connect"
    /\ \E res \in {"ok", "ConnectionRefused", "Other"} :
         wpc' = [wpc EXCEPT ![w] = IF res = "ok" THEN "handshake" ELSE "session_end"]
    /\ UNCHANGED <<auxVars, fileVars, config, now, prodVars, queue, sent, taken, arx, bytes, sink, tlsVars>>

AfterHandshake_Reset(delay) == config.recovery_delay_init * JitterScale

\* what a completed handshake leaves in recovery_delay
AfterHandshake(delay) == delay

\* handle_connection: connector.connect(hostname, client)
TlsHandshake(w) ==
    /\ wpc[w] = "handshake"
    /\ \E ok \in BOOLEAN :
         IF ok
           THEN /\ wpc' = [wpc EXCEPT ![w] = "lock"]
                /\ recovery_delay' = [recovery_delay EXCEPT ![w] = AfterHandshake(@)]
           ELSE /\ wpc' = [wpc EXCEPT ![w] = "session_end"]
                /\ recovery_delay' = recovery_delay
    /\ UNCHANGED <<auxVars, fileVars, config, now, prodVars, queue, sent, taken, arx, bytes, sink,
                   cluster, last_recovery, attempts, kqueue>>

\* handle_connection: writer.write_all(&bytes) and the match on its error
TlsWrite(w) ==
    /\ config.output_type = "tls"
    /\ wpc[w] = "write"
    /\ \E res \in {"ok", "Interrupted", "ConnectionReset", "Other"} :
         \/ /\ res = "ok"
            /\ sink' = [sink EXCEPT ![w] = Append(@, bytes[w])]
            /\ wpc' = [wpc EXCEPT ![w] = IF config.async_ THEN "lock" ELSE "flush"]
         \/ /\ res = "Interrupted"
            /\ sink' = sink
            /\ wpc' = [wpc EXCEPT ![w] = "lock"]
         \/ /\ res \in {"ConnectionReset", "Other"}
            /\ sink' = sink
            /\ wpc' = [wpc EXCEPT ![w] = "session_end"]
    /\ bytes' = [bytes EXCEPT ![w] = NoBytes]
    /\ UNCHANGED <<auxVars, fileVars, config, now, prodVars, queue, sent, taken, arx, tlsVars>>

\* handle_connection: writer.flush()? unless async_
TlsFlush(w) ==
    /\ wpc[w] = "flush"
    /\ \E res \in {"ok", "ConnectionReset", "Other"} :
         wpc' = [wpc EXCEPT ![w] = IF res = "ok" THEN "lock" ELSE "session_end"]
    /\ UNCHANGED <<auxVars, fileVars, config, now, prodVars, queue, sent, taken, arx, bytes, sink, tlsVars>>

\* the delays `recovery_delay += rng.gen_range(0.0, recovery_delay)` can
\* produce; gen_range panics on the empty range [0.0, 0.0)
Backoff(delay) == {delay + j : j \in 0..(delay - 1)}

\* run(): the delay that follows a session of the given length
NextDelays(elapsed, delay) ==
    IF elapsed > config.recovery_probe_time
      THEN {config.recovery_delay_init * JitterScale}
      ELSE IF delay < config.recovery_delay_max * JitterScale
             THEN Backoff(delay)
             ELSE {delay}

\* run(): where the worker goes once the new delay is computed
AfterSessionEnd(delays) == IF delays = {} THEN "panicked" ELSE "sleep"

\* run(): after handle_connection has returned its error
TlsSessionEnd(w) ==
    /\ wpc[w] = "session_end"
    /\ LET delays == NextDelays(now - last_recovery[w], recovery_delay[w]) IN
         /\ wpc' = [wpc EXCEPT ![w] = AfterSessionEnd(delays)]
         /\ IF delays = {}
              THEN recovery_delay' = recovery_delay
              ELSE \E d \in delays : recovery_delay' = [recovery_delay EXCEPT ![w] = d]
    /\ UNCHANGED <<auxVars, fileVars, config, now, prodVars, queue, sent, taken, arx, bytes, sink,
                   cluster, last_recovery, attempts, kqueue>>

\* run(): the argument of thread::sleep, recovery_delay.round() as u64
SleepMs(w) == Round(recovery_delay[w])

\* run(): thread::sleep(..) returns, "Attempting to reconnect"
TlsSleep(w) ==
    /\ wpc[w] = "sleep"
    /\ wpc' = [wpc EXCEPT ![w] = "select"]
    /\ UNCHANGED <<auxVars, fileVars, config, now, prodVars, queue, sent, taken, arx, bytes, sink, tlsVars>>

(***************************************************************************)
(* Specifications.                                                         *)
(***************************************************************************)

\* the pipeline under every sink type; clients is the number of connections
\* the input accepts, connect the number of TLS peers
PipelineConfigs ==
    {c \in [queue_size : 1..MaxQueue,
            clients : Conns,
            output_type : {"file", "debug", "kafka", "tls"},
            threads : Threads,
            async_ : BOOLEAN,
            coalesce : {1},
            connect : {1},
            recovery_delay_init : {1},
            recovery_delay_max : {1},
            recovery_probe_time : {ProbeTime}] :
        /\ c.output_type \in {"file", "debug"} => c.threads = 1
        /\ c.output_type # "tls" => ~c.async_
        /\ c.threads > 1 => c.clients = 1}

\* one TLS worker under every recovery configuration that config_parse
\* accepts (it panics unless init <= max)
TlsConfigs ==
    {c \in [queue_size : {1},
            clients : {1},
            output_type : {"tls"},
            threads : {1},
            async_ : BOOLEAN,
            coalesce : {1},
            connect : {NPeers},
            recovery_delay_init : 0..MaxDelay,
            recovery_delay_max : 0..MaxDelay,
            recovery_probe_time : {ProbeTime}] :
        c.recovery_delay_init <= c.recovery_delay_max}

\* the state once start() has built the queue and spawned the workers
InitWith(configs) ==
    /\ config \in configs
    /\ now = 0
    /\ tx_main = TRUE
    /\ spc = [p \in Conns |-> "none"]
    /\ nread = [p \in Conns |-> 0]
    /\ reencoded = [p \in Conns |-> NoBytes]
    /\ queue = <<>>
    /\ sent = <<>>
    /\ taken = <<>>
    /\ arx = 0
    /\ wpc = [w \in Threads |->
                IF w > config.threads THEN "none"
                ELSE IF config.output_type = "tls" THEN "select" ELSE "lock"]
    /\ bytes = [w \in Threads |-> NoBytes]
    /\ sink = [w \in Threads |-> <<>>]
    /\ cluster \in {[connect |-> s, idx |-> 0] : s \in Shuffles(config.connect)}
    /\ attempts = <<>>
    /\ kqueue = [w \in Threads |-> <<>>]
    /\ last_recovery = [w \in Threads |-> 0]
    /\ recovery_delay = [w \in Threads |-> config.recovery_delay_init * JitterScale]

\* no rotating file is in use
NoFile ==
    /\ rfile = [max_size |-> 0]
    /\ files = <<>>
    /\ last_write = <<>>

\* the input is not the Redis input
NoRedis == redis = [pc |-> "none"]

\* no connection is being split into frames
NoSplitter == splitter = [pc |-> "none"]

\* no merger is being chosen and no record is being decoded
NoEncoder == encoding = [pc |-> "none"]
NoInput == input = [pc |-> "none"]
NoProbe ==
    /\ framing = [pc |-> "none"]
    /\ decoding = [pc |-> "none"]
    /\ NoEncoder
    /\ NoInput

Init == InitWith(PipelineConfigs) /\ NoFile /\ NoRedis /\ NoSplitter /\ NoProbe

Next ==
    \/ \E p \in Conns : Accept(p)
    \/ AcceptReturns
    \/ \E p \in Conns : SplitterRead(p)
    \/ \E p \in Conns : handle_line(p)
    \/ \E p \in Conns : Send(p)
    \/ \E w \in Threads : Lock(w)
    \/ \E w \in Threads : Recv(w)
    \/ \E w \in Threads : SinkWrite(w)
    \/ \E w \in Threads : KafkaSend(w)
    \/ \E w \in Threads : TlsSelect(w)
    \/ \E w \in Threads : TlsConnect(w)
    \/ \E w \in Threads : TlsHandshake(w)
    \/ \E w \in Threads : TlsWrite(w)
    \/ \E w \in Threads : TlsFlush(w)
    \/ \E w \in Threads : TlsSessionEnd(w)
    \/ \E w \in Threads : TlsSleep(w)

Spec == Init /\ [][Next]_vars

\* largest value of output.kafka_coalesce
MaxCoalesce == 2

\* Kafka workers, without (kafka_coalesce = 1) and with coalescing
KafkaConfigs ==
    {c \in [queue_size : 1..MaxQueue,
            clients : Conns,
            output_type : {"kafka"},
            threads : Threads,
            async_ : {FALSE},
            coalesce : 1..MaxCoalesce,
            connect : {1},
            recovery_delay_init : {1},
            recovery_delay_max : {1},
            recovery_probe_time : {ProbeTime}] :
        c.threads > 1 => c.clients = 1}

InitKafka == InitWith(KafkaConfigs) /\ NoFile /\ NoRedis /\ NoSplitter /\ NoProbe

\* KafkaWorker::run chooses between KafkaSend and run_coalesce
NextKafka ==
    \/ \E p \in Conns : Accept(p)
    \/ AcceptReturns
    \/ \E p \in Conns : SplitterRead(p)
    \/ \E p \in Conns : handle_line(p)
    \/ \E p \in Conns : Send(p)
    \/ \E w \in Threads : Lock(w)
    \/ \E w \in Threads : Recv(w)
    \/ \E w \in Threads : KafkaSend(w)
    \/ \E w \in Threads : run_coalesce(w)

SpecKafka == InitKafka /\ [][NextKafka]_vars

InitTls == InitWith(TlsConfigs) /\ NoFile /\ NoRedis /\ NoSplitter /\ NoProbe

NextTls ==
    \/ \E p \in Conns : Accept(p)
    \/ AcceptReturns
    \/ \E p \in Conns : SplitterRead(p)
    \/ \E p \in Conns : handle_line(p)
    \/ \E p \in Conns : Send(p)
    \/ Tick
    \/ \E w \in Threads : Lock(w)
    \/ \E w \in Threads : Recv(w)
    \/ \E w \in Threads : TlsSelect(w)
    \/ \E w \in Threads : TlsConnect(w)
    \/ \E w \in Threads : TlsHandshake(w)
    \/ \E w \in Threads : TlsWrite(w)
    \/ \E w \in Threads : TlsFlush(w)
    \/ \E w \in Threads : TlsSessionEnd(w)
    \/ \E w \in Threads : TlsSleep(w)

SpecTls == InitTls /\ [][NextTls]_vars

\* several TLS workers that share one list of peers, of any length that
\* config_parse accepts
PeerConfigs ==
    [queue_size : {1},
     clients : {1},
     output_type : {"tls"},
     threads : Threads,
     async_ : {FALSE},
     coalesce : {1},
     connect : 0..NPeers,
     recovery_delay_init : {1},
     recovery_delay_max : {1},
     recovery_probe_time : {ProbeTime}]

InitPeers == InitWith(PeerConfigs) /\ NoFile /\ NoRedis /\ NoSplitter /\ NoProbe

SpecPeers == InitPeers /\ [][NextTls]_vars

\* one step of output worker thread w
WorkerStep(w) ==
    \/ Lock(w) \/ Recv(w) \/ SinkWrite(w) \/ KafkaSend(w)
    \/ TlsSelect(w) \/ TlsConnect(w) \/ TlsHandshake(w) \/ TlsWrite(w)
    \/ TlsFlush(w) \/ TlsSessionEnd(w) \/ TlsSleep(w)

\* every output worker is an OS thread of its own and keeps running
FairSpec == Spec /\ \A w \in Threads : WF_vars(WorkerStep(w))

\* the pipeline with the smallest queue
InitLive ==
    /\ InitWith({c \in PipelineConfigs : c.queue_size = 1 /\ ~c.async_})
    /\ NoFile /\ NoRedis /\ NoSplitter /\ NoProbe

\* the splitter threads keep running as well: a send that can complete does
LiveSpec ==
    /\ InitLive /\ [][Next]_vars
    /\ \A w \in Threads : WF_vars(WorkerStep(w))
    /\ \A p \in Conns : WF_vars(Send(p))

(***************************************************************************)
(* Rotating file writer: utils/rotating_file.rs.                           *)
(* A file name is a pair; a file's content is the sequence of chunks       *)
(* appended to it, each chunk carrying the number of the write() call it   *)
(* came from and the bytes of that call that reached the file.             *)
(***************************************************************************)

\* current_file: None
NoPath == <<"none", 0>>
\* self.basename
Basename == <<"base", 0>>

\* basename with its extension replaced by file_num; basename when negative
build_file_path(file_num) ==
    IF file_num < 0 THEN Basename ELSE <<"num", file_num>>

\* current_time.format(time_format): the format keeps one stamp for
\* time_format consecutive clock values
FormatTime(rf, t) == t \div rf.time_format

\* stem-{timestamp}.ext
TimestampedName(rf, t) == <<"time", FormatTime(rf, t)>>

\* RotatingFile::new
new(max_size, max_time, max_files, time_format) ==
    [max_size |-> max_size, max_time |-> max_time, max_files |-> max_files,
     time_format |-> time_format, current_file |-> NoPath,
     current_size |-> 0, next_rotation_time |-> -1]

is_time_triggered(rf) == rf.max_time > 0

is_size_triggered(rf) == rf.max_time = 0 /\ rf.max_size > 0

is_rotation_time_reached_Late(rf, t) ==
    rf.next_rotation_time # -1 /\ rf.next_rotation_time < t

is_rotation_time_reached(rf, t) ==
    rf.next_rotation_time # -1 /\ rf.next_rotation_time <= t

is_rotation_size_reached_AfterWrite(rf, bytes_to_write) ==
    rf.max_size > 0 /\ rf.current_size > rf.max_size

is_rotation_size_reached(rf, bytes_to_write) ==
    rf.max_size > 0 /\ rf.current_size + bytes_to_write > rf.max_size

RECURSIVE FileLen(_)
\* metadata.len(): the bytes a file holds
FileLen(content) ==
    IF content = <<>> THEN 0 ELSE Head(content).n + FileLen(Tail(content))

\* OpenOptions::new().create(true).append(true).open(path): the file is
\* created empty unless it exists
open_file_Truncate(fs, path) ==
    [f \in DOMAIN fs \cup {path} |-> IF f = path THEN <<>> ELSE fs[f]]

open_file(fs, path) ==
    IF path \in DOMAIN fs THEN fs
    ELSE [f \in DOMAIN fs \cup {path} |-> IF f = path THEN <<>> ELSE fs[f]]

\* RotatingFile::open; result is what the operating system answers
open(rf, fs, t, result) ==
    LET rf1 == IF is_time_triggered(rf)
               THEN [rf EXCEPT !.next_rotation_time = t + rf.max_time]
               ELSE rf
        filepath == IF is_time_triggered(rf) THEN TimestampedName(rf, t)
                    ELSE Basename
        fs1 == open_file(fs, filepath)
    IN  IF result = "ok"
        THEN [ok |-> TRUE, fs |-> fs1,
              rf |-> [rf1 EXCEPT !.current_size = FileLen(fs1[filepath]),
                                 !.current_file = filepath]]
        ELSE [ok |-> FALSE, fs |-> fs, rf |-> rf1]

\* fs::rename(src, dest), its error ignored: nothing moves when src is absent
rename(fs, src, dest) ==
    IF src \notin DOMAIN fs \/ src = dest THEN fs
    ELSE [f \in (DOMAIN fs \ {src}) \cup {dest} |->
            IF f = dest THEN fs[src] ELSE fs[f]]

RECURSIVE ShiftFiles(_, _)
\* for file_num in (0..max_files).rev(): rename path(file_num-1) to
\* path(file_num)
ShiftFiles(fs, file_num) ==
    IF file_num < 0 THEN fs
    ELSE ShiftFiles(rename(fs, build_file_path(file_num - 1),
                           build_file_path(file_num)), file_num - 1)

\* the last step of rotate_size and rotate_time: self.open()?, then
\* current_size = 0
Reopen(rf, fs, t, result) ==
    LET o == open([rf EXCEPT !.current_file = NoPath], fs, t, result)
    IN  IF o.ok THEN [o EXCEPT !.rf.current_size = 0] ELSE o

rotate_size_BaseOnly(rf, fs, t, result) ==
    Reopen(rf, ShiftFiles(fs, 0), t, result)

rotate_size(rf, fs, t, result) ==
    Reopen(rf, ShiftFiles(fs, rf.max_files - 1), t, result)

rotate_time(rf, fs, t, result) == Reopen(rf, fs, t, result)

\* does check_rotation_trigger rotate
MustRotate(rf, t, bytes_to_write) ==
    IF is_time_triggered(rf)
    THEN is_rotation_time_reached(rf, t)
            \/ is_rotation_size_reached(rf, bytes_to_write)
    ELSE is_size_triggered(rf) /\ is_rotation_size_reached(rf, bytes_to_write)

check_rotation_trigger(rf, fs, t, bytes_to_write, result) ==
    IF ~MustRotate(rf, t, bytes_to_write) THEN [ok |-> TRUE, fs |-> fs, rf |-> rf]
    ELSE IF is_time_triggered(rf) THEN rotate_time(rf, fs, t, result)
    ELSE rotate_size(rf, fs, t, result)

\* what File::write(buf) may answer for a buffer of len bytes: Ok(len),
\* Ok(fewer) or Err
FileWriteResults(len) ==
    {[ok |-> TRUE, n |-> len], [ok |-> TRUE, n |-> len - 1], [ok |-> FALSE, n |-> 0]}

\* the file after n bytes of write call id were appended to it
Appended(content, id, n) ==
    IF n = 0 THEN content ELSE Append(content, [id |-> id, n |-> n])

\* impl Write for RotatingFile: write(buf) with buf.len() = len. The output
\* thread calls it for every vector and panics on the first Err.
write(len) ==
    /\ last_write.id < MaxWrites
    /\ last_write.ok
    /\ \E result \in {"ok", "err"}, res \in FileWriteResults(len) :
         LET written == len
             id == last_write.id + 1
             rotated == MustRotate(rfile, now, written)
             chk == check_rotation_trigger(rfile, files, now, written, result)
             rf1 == [chk.rf EXCEPT !.current_size = @ + written]
             cur == rf1.current_file
             call == [id |-> id, len |-> len, rotated |-> rotated]
         IN  /\ ~rotated => result = "ok"
             /\ (~chk.ok \/ cur = NoPath) => res.n = len
             /\ IF ~chk.ok
                THEN /\ rfile' = chk.rf
                     /\ files' = chk.fs
                     /\ last_write' = call @@ [ok |-> FALSE, to |-> NoPath, n |-> 0]
                ELSE IF cur = NoPath
                THEN /\ rfile' = rf1
                     /\ files' = chk.fs
                     /\ last_write' = call @@ [ok |-> TRUE, to |-> NoPath, n |-> 0]
                ELSE IF ~res.ok
                THEN /\ rfile' = rf1
                     /\ files' = chk.fs
                     /\ last_write' = call @@ [ok |-> FALSE, to |-> cur, n |-> 0]
                ELSE /\ rfile' = rf1
                     /\ files' = [chk.fs EXCEPT ![cur] = Appended(@, id, res.n)]
                     /\ last_write' = call @@ [ok |-> TRUE, to |-> cur, n |-> res.n]
    /\ UNCHANGED <<auxVars, pipeVars>>

\* the rotation settings explored
FileSettings ==
    {new(s, 0, k, 1) : s \in 1..MaxSize, k \in 1..MaxFiles}
        \cup {new(s, 1, 1, f) : s \in 0..MaxSize, f \in 1..2}

\* FileOutput::open_writer: RotatingFile::new, then open() returned Ok on an
\* empty directory; the pipeline is at rest
InitFile ==
    /\ InitWith({c \in PipelineConfigs :
                    c.output_type = "file" /\ c.queue_size = 1 /\ c.clients = 1})
    /\ \E rf \in FileSettings :
         LET o == open(rf, <<>>, 0, "ok")
         IN  rfile = o.rf /\ files = o.fs
    /\ last_write = [id |-> 0, len |-> 0, rotated |-> FALSE, ok |-> TRUE,
                     to |-> NoPath, n |-> 0]
    /\ NoRedis
    /\ NoSplitter
    /\ NoProbe

NextFile ==
    \/ Tick
    \/ \E len \in 1..MaxLen : write(len)

SpecFile == InitFile /\ [][NextFile]_vars

(***************************************************************************)
(* Redis input: input/redis_input.rs, one RedisWorker. A list is a         *)
(* sequence whose first element is the head (left end) of the Redis list.  *)
(***************************************************************************)

\* an item of a list; utf8 tells whether its bytes convert to a String
RedisItems == [id : 1..MaxItems, utf8 : BOOLEAN]

\* the lists of up to n items with different ids
RedisLists(n) ==
    UNION {{l \in [1..k -> RedisItems] :
              \A i, j \in 1..k : i # j => l[i].id # l[j].id} : k \in 0..n}

\* RPOP in the place of RPOPLPUSH: the item popped is stored nowhere
rpoplpush_Rpop(src, dst) ==
    [item |-> src[Len(src)],
     src |-> SubSeq(src, 1, Len(src) - 1),
     dst |-> dst]

\* what the server does for RPOPLPUSH src dst (and BRPOPLPUSH) on a
\* non-empty src: the tail of src becomes the head of dst
rpoplpush(src, dst) ==
    [item |-> src[Len(src)],
     src |-> SubSeq(src, 1, Len(src) - 1),
     dst |-> <<src[Len(src)]>> \o dst]

RECURSIVE lrem(_, _)
\* LREM list 1 value: the occurrence nearest to the head is removed
lrem(list, value) ==
    IF list = <<>> THEN <<>>
    ELSE IF Head(list) = value THEN Tail(list)
    ELSE <<Head(list)>> \o lrem(Tail(list), value)

\* RedisWorker::run: while { rpoplpush(queue_key_tmp, queue_key).is_ok() } {}
\* The call is Err when the server answers nil (empty list) or with an
\* error, and when the item moved does not convert to a String.
Drain ==
    /\ redis.pc = "drain"
    /\ \E reply \in {"value", "error"} :
         IF reply = "error" \/ redis.tmp = <<>>
         THEN redis' = [redis EXCEPT !.pc = "pop"]
         ELSE LET r == rpoplpush(redis.tmp, redis.queue)
              IN  redis' = [redis EXCEPT
                              !.tmp = r.src, !.queue = r.dst,
                              !.recovered = @ \cup {r.item.id},
                              !.pc = IF r.item.utf8 THEN "drain" ELSE "pop"]
    /\ UNCHANGED notRedis

\* redis_cnx.brpoplpush(queue_key, queue_key_tmp, 0): blocks while queue_key
\* is empty; Err makes run() return, and the thread calls exit(1)
Brpoplpush ==
    /\ redis.pc = "pop"
    /\ \E reply \in {"value", "error"} :
         IF reply = "error"
         THEN redis' = [redis EXCEPT !.pc = "exited"]
         ELSE /\ redis.queue # <<>>
              /\ LET r == rpoplpush(redis.queue, redis.tmp)
                 IN  redis' = [redis EXCEPT
                                 !.queue = r.src, !.tmp = r.dst,
                                 !.popped = TRUE,
                                 !.line = r.item,
                                 !.pc = IF r.item.utf8 THEN "handle" ELSE "exited"]
    /\ UNCHANGED notRedis

\* handle_record(&line, ..): the record is decoded, encoded and sent; an
\* Err is logged
RedisHandleRecord ==
    /\ redis.pc = "handle"
    /\ redis' = [redis EXCEPT !.handled = Append(@, redis.line.id), !.pc = "lrem"]
    /\ UNCHANGED notRedis

\* redis_cnx.lrem(queue_key_tmp, 1, line)
Lrem ==
    /\ redis.pc = "lrem"
    /\ \E reply \in {"value", "error"} :
         IF reply = "error"
         THEN redis' = [redis EXCEPT !.pc = "exited"]
         ELSE redis' = [redis EXCEPT !.tmp = lrem(@, redis.line), !.pc = "pop"]
    /\ UNCHANGED notRedis

\* RedisWorker::new has connected; queue_key.tmp.N holds what a previous run
\* left in it
InitRedis ==
    /\ InitWith({c \in PipelineConfigs :
                    c.output_type = "debug" /\ c.queue_size = 1 /\ c.clients = 1})
    /\ NoFile
    /\ NoSplitter
    /\ NoProbe
    /\ \E tmp \in RedisLists(MaxItems - 1), q \in RedisLists(1) :
         /\ \A i \in 1..Len(tmp), j \in 1..Len(q) : tmp[i].id # q[j].id
         /\ redis = [pc |-> "drain", queue |-> q, tmp |-> tmp,
                     line |-> [id |-> 0, utf8 |-> TRUE], handled |-> <<>>,
                     popped |-> FALSE, recovered |-> {},
                     found |-> {tmp[i].id : i \in 1..Len(tmp)}]

NextRedis ==
    \/ Drain
    \/ Brpoplpush
    \/ RedisHandleRecord
    \/ Lrem

SpecRedis == InitRedis /\ [][NextRedis]_vars

(***************************************************************************)
(* Splitters at the level of bytes: splitter/line_splitter.rs,             *)
(* splitter/nul_splitter.rs and splitter/syslen_splitter.rs reading the    *)
(* bytes of one connection through a BufReader.                            *)
(***************************************************************************)

\* the bytes told apart: digits, the space, a letter, a byte that is not
\* valid UTF-8, the line feed and the NUL byte
Octets == {"0", "1", "2", "SP", "a", "xFF", "LF", "NUL"}

\* the bytes a splitter of this kind tells apart: the others are to it
\* what the letter is
OctetsOf(kind) ==
    IF kind = "line" THEN {"a", "xFF", "LF"}
    ELSE IF kind = "nul" THEN {"a", "xFF", "NUL"}
    ELSE Octets \ {"LF", "NUL"}

Streams(kind) == UNION {[1..k -> OctetsOf(kind)] : k \in 0..MaxStream}

\* str::from_utf8(bytes).is_ok()
IsUtf8(octets) == \A i \in 1..Len(octets) : octets[i] # "xFF"

\* the ASCII digits, in order
Digits == <<"0", "1", "2", "3", "4", "5", "6", "7", "8", "9">>

IsDigit(b) == \E i \in 1..10 : Digits[i] = b

DigitValue(b) == (CHOOSE i \in 1..10 : Digits[i] = b) - 1

RECURSIVE ParseValue(_)
\* nbytes_s.parse::<usize>(): Ok for a non-empty run of digits
ParseValue(s) ==
    IF s = <<>> THEN 0
    ELSE 10 * ParseValue(SubSeq(s, 1, Len(s) - 1)) + DigitValue(s[Len(s)])

ParseOk(s) == s # <<>> /\ \A i \in 1..Len(s) : IsDigit(s[i])

\* BufRead::read_until(delim): the bytes after pos up to and including the
\* first delim, or up to the end of the stream when there is none
read_until(stream, pos, delim) ==
    LET at == {j \in (pos + 1)..Len(stream) : stream[j] = delim}
        last == IF at = {} THEN Len(stream)
                ELSE CHOOSE j \in at : \A k \in at : j <= k
    IN  SubSeq(stream, pos + 1, last)

\* the record without the delimiter that ends it
StripDelim(raw, delim) ==
    IF raw # <<>> /\ raw[Len(raw)] = delim THEN SubSeq(raw, 1, Len(raw) - 1)
    ELSE raw

\* what a read of the connection answers besides data
ReadErrors == {"interrupted", "would_block", "other"}

\* ErrorKind::Interrupted => continue; WouldBlock and the others => return
AfterReadError(sp, res) ==
    [sp EXCEPT !.event = res,
               !.pc = IF res = "interrupted" THEN sp.pc ELSE "done"]

\* one turn of the loop over buf_reader.lines() (delim LF, the reader
\* answers InvalidData for a line that is not UTF-8) or over
\* buf_reader.split(0) followed by str::from_utf8 (delim NUL)
DelimitedRun(sp, delim, res) ==
    IF res \in ReadErrors THEN AfterReadError(sp, res)
    ELSE IF sp.pos = Len(sp.stream) THEN [sp EXCEPT !.event = "eof", !.pc = "done"]
    ELSE LET raw == read_until(sp.stream, sp.pos, delim)
         IN  IF ~IsUtf8(raw)
             THEN [sp EXCEPT !.event = "invalid_utf8", !.pos = @ + Len(raw),
                             !.start = sp.pos + Len(raw)]
             ELSE [sp EXCEPT !.event = "frame", !.pos = @ + Len(raw),
                             !.start = sp.pos + Len(raw),
                             !.frames = Append(@, StripDelim(raw, delim))]

\* LineSplitter::run
LineSplitterRun ==
    /\ splitter.kind = "line" /\ splitter.pc = "read"
    /\ \E res \in ReadErrors \cup {"data"} :
         splitter' = DelimitedRun(splitter, "LF", res)
    /\ UNCHANGED notSplitter

\* NulSplitter::run
NulSplitterRun ==
    /\ splitter.kind = "nul" /\ splitter.pc = "read"
    /\ \E res \in ReadErrors \cup {"data"} :
         splitter' = DelimitedRun(splitter, "NUL", res)
    /\ UNCHANGED notSplitter

MsgLen_CountsSpace(nbytes_v) ==
    LET nbytes_s == SubSeq(nbytes_v, 1, Len(nbytes_v) - 1)
    IN  IF Len(nbytes_v) <= 1 THEN [ok |-> FALSE, event |-> "eof", n |-> 0]
        ELSE IF ~IsUtf8(nbytes_s) \/ ~ParseOk(nbytes_s)
        THEN [ok |-> FALSE, event |-> "invalid_length", n |-> 0]
        ELSE [ok |-> TRUE, event |-> "length", n |-> ParseValue(nbytes_s) + 1]

\* what read_msglen makes of the bytes read_until returned
MsgLen(nbytes_v) ==
    LET nbytes_s == SubSeq(nbytes_v, 1, Len(nbytes_v) - 1)
    IN  IF Len(nbytes_v) <= 1 THEN [ok |-> FALSE, event |-> "eof", n |-> 0]
        ELSE IF ~IsUtf8(nbytes_s) \/ ~ParseOk(nbytes_s)
        THEN [ok |-> FALSE, event |-> "invalid_length", n |-> 0]
        ELSE [ok |-> TRUE, event |-> "length", n |-> ParseValue(nbytes_s)]

\* SyslenSplitter::run: read_msglen; read_until retries an interrupted read
\* itself, every error it returns ends the loop
read_msglen ==
    /\ splitter.kind = "syslen" /\ splitter.pc = "read"
    /\ \E res \in {"data", "would_block", "other"} :
         IF res # "data" THEN splitter' = AfterReadError(splitter, res)
         ELSE LET nbytes_v == read_until(splitter.stream, splitter.pos, "SP")
                  len == MsgLen(nbytes_v)
              IN  splitter' = [splitter EXCEPT
                      !.event = len.event,
                      !.pos = @ + Len(nbytes_v),
                      !.pc = IF len.ok THEN "body" ELSE "done",
                      !.to_read = len.n,
                      !.line = <<>>]
    /\ UNCHANGED notSplitter

\* read_exact: one turn of while to_read > 0; fill_buf hands out some of the
\* bytes that follow, none at the end of the stream
read_exact ==
    /\ splitter.kind = "syslen" /\ splitter.pc = "body" /\ splitter.to_read > 0
    /\ \E res \in ReadErrors \cup {"data"} :
         IF res \in ReadErrors THEN splitter' = AfterReadError(splitter, res)
         ELSE \E buffered \in 0..(Len(splitter.stream) - splitter.pos) :
                /\ buffered = 0 => splitter.pos = Len(splitter.stream)
                /\ LET used == IF buffered < splitter.to_read THEN buffered
                               ELSE splitter.to_read
                   IN  splitter' = [splitter EXCEPT
                           !.event = "bytes",
                           !.line = @ \o SubSeq(splitter.stream, splitter.pos + 1,
                                                splitter.pos + used),
                           !.pos = @ + used,
                           !.to_read = @ - used]
    /\ UNCHANGED notSplitter

\* the splitter handing over line.trim() in the place of line
SyslenFrame_Trimmed ==
    /\ splitter.kind = "syslen" /\ splitter.pc = "body" /\ splitter.to_read = 0
    /\ IF ~IsUtf8(splitter.line)
       THEN splitter' = [splitter EXCEPT !.event = "invalid_utf8", !.pc = "done"]
       ELSE splitter' = [splitter EXCEPT !.event = "frame", !.pc = "read",
                                         !.start = splitter.pos,
                                         !.frames = Append(@, StripDelim(splitter.line, "LF"))]
    /\ UNCHANGED notSplitter

\* SyslenSplitter::run after read_exact: str::from_utf8, handle_line
SyslenFrame ==
    /\ splitter.kind = "syslen" /\ splitter.pc = "body" /\ splitter.to_read = 0
    /\ IF ~IsUtf8(splitter.line)
       THEN splitter' = [splitter EXCEPT !.event = "invalid_utf8", !.pc = "done"]
       ELSE splitter' = [splitter EXCEPT !.event = "frame", !.pc = "read",
                                         !.start = splitter.pos,
                                         !.frames = Append(@, splitter.line)]
    /\ UNCHANGED notSplitter

\* a connection was accepted and handed to the splitter of the framing
InitSplit ==
    /\ InitWith({c \in PipelineConfigs :
                    c.output_type = "debug" /\ c.queue_size = 1 /\ c.clients = 1})
    /\ NoFile
    /\ NoRedis
    /\ NoProbe
    /\ \E kind \in {"line", "nul", "syslen"} : \E stream \in Streams(kind) :
         splitter = [kind |-> kind, stream |-> stream, pos |-> 0, pc |-> "read",
                     start |-> 0, to_read |-> 0, line |-> <<>>, frames |-> <<>>,
                     event |-> "none"]

NextSplit ==
    \/ LineSplitterRun
    \/ NulSplitterRun
    \/ read_msglen
    \/ read_exact
    \/ SyslenFrame

SpecSplit == InitSplit /\ [][NextSplit]_vars

(***************************************************************************)
(* The choice of the merger in start() (mod.rs) and the mergers            *)
(* (merger/line_merger.rs, nul_merger.rs, syslen_merger.rs).               *)
(***************************************************************************)

\* values of output.format, output.type and output.framing; "absent" is a
\* key the configuration file does not have, "passthrough" and "other"
\* are strings start() does not know
OutputFormats == {"absent", "capnp", "gelf", "json", "ltsv", "rfc3164",
                  "rfc5424", "passthrough"}
OutputTypes == {"absent", "stdout", "debug", "kafka", "tls", "syslog-tls",
                "file", "other"}
OutputFramings == {"absent", "noop", "nop", "none", "capnp", "line", "nul",
                   "syslen", "other"}

DEFAULT_OUTPUT_FORMAT == "gelf"
DEFAULT_OUTPUT_FRAMING == "noop"
\* cfg(feature = "kafka-output")
DEFAULT_OUTPUT_TYPE(kafka_output) == IF kafka_output THEN "kafka" ELSE "tls"

\* config.lookup(key).map_or(default, ..)
map_or(value, default) == IF value = "absent" THEN default ELSE value

\* the match on output_format that builds the encoder does not panic
EncoderKnown(output_format) ==
    output_format \in {"capnp", "gelf", "json", "ltsv", "rfc3164", "rfc5424"}

\* get_output does not panic
OutputKnown(output_type, kafka_output) ==
    \/ output_type \in {"stdout", "debug", "tls", "syslog-tls", "file"}
    \/ output_type = "kafka" /\ kafka_output

DefaultFraming_GelfFirst(output_format, output_type) ==
    IF output_format = "capnp" \/ output_type = "kafka" THEN "noop"
    ELSE IF output_format = "gelf" THEN "nul"
    ELSE IF output_type = "debug" \/ output_format = "ltsv" THEN "line"
    ELSE DEFAULT_OUTPUT_FRAMING

\* the arms of match (output_format, output_type), first match wins
DefaultFraming(output_format, output_type) ==
    IF output_format = "capnp" \/ output_type = "kafka" THEN "noop"
    ELSE IF output_type = "debug" \/ output_format = "ltsv" THEN "line"
    ELSE IF output_format = "gelf" THEN "nul"
    ELSE DEFAULT_OUTPUT_FRAMING

\* match output_framing: the merger, "None" for no merger, "panic" for the
\* arm that panics
MergerOf(output_framing) ==
    IF output_framing \in {"noop", "nop", "none", "capnp"} THEN "None"
    ELSE IF output_framing \in {"line", "nul", "syslen"} THEN output_framing
    ELSE "panic"

RECURSIVE ToDecimal(_)
\* format!("{}", n) for an unsigned n
ToDecimal(n) ==
    IF n < 10 THEN <<Digits[n + 1]>>
    ELSE ToDecimal(n \div 10) \o <<Digits[(n % 10) + 1]>>

\* LineMerger::frame
LineMergerFrame(octets) == Append(octets, "LF")

\* NulMerger::frame
NulMergerFrame(octets) == Append(octets, "NUL")

SyslenMergerFrame_BodyLength(octets) ==
    ToDecimal(Len(octets)) \o <<"SP">> \o octets \o <<"LF">>

\* SyslenMerger::frame: the vector is moved up by the length of the prefix,
\* the prefix is copied in front of it and 0x0a is written behind it
SyslenMergerFrame(octets) ==
    ToDecimal(Len(octets) + 1) \o <<"SP">> \o octets \o <<"LF">>

\* if let Some(ref merger) = merger { merger.frame(&mut bytes) }
Framed(merger, octets) ==
    IF merger = "line" THEN LineMergerFrame(octets)
    ELSE IF merger = "nul" THEN NulMergerFrame(octets)
    ELSE IF merger = "syslen" THEN SyslenMergerFrame(octets)
    ELSE octets

\* the vectors an encoder hands over
Bodies == UNION {[1..k -> {"a", "LF"}] : k \in 0..MaxBody}

\* start(): from output.format to the merger handed to output.start()
start ==
    /\ framing.pc = "start"
    /\ LET c == framing.config
           output_format == map_or(c.format, DEFAULT_OUTPUT_FORMAT)
           output_type == map_or(c.type, DEFAULT_OUTPUT_TYPE(c.kafka_output))
           output_framing == map_or(c.framing,
                                    DefaultFraming(output_format, output_type))
       IN  IF /\ EncoderKnown(output_format)
              /\ OutputKnown(output_type, c.kafka_output)
              /\ MergerOf(output_framing) # "panic"
           THEN framing' = [framing EXCEPT !.pc = "output",
                                           !.merger = MergerOf(output_framing)]
           ELSE framing' = [framing EXCEPT !.pc = "panicked"]
    /\ UNCHANGED notFraming

\* an output worker frames one vector it took from the queue
frame ==
    /\ framing.pc = "output"
    /\ \E octets \in Bodies :
         framing' = [pc |-> "framed", merger |-> framing.merger,
                     body |-> octets, bytes |-> Framed(framing.merger, octets)]
    /\ UNCHANGED notFraming

InitMerger ==
    /\ InitWith({c \in PipelineConfigs :
                    c.output_type = "debug" /\ c.queue_size = 1 /\ c.clients = 1})
    /\ NoFile
    /\ NoRedis
    /\ NoSplitter
    /\ NoEncoder
    /\ NoInput
    /\ decoding = [pc |-> "none"]
    /\ \E f \in OutputFormats, t \in OutputTypes, fr \in OutputFramings,
          k \in BOOLEAN :
         framing = [pc |-> "start", merger |-> "unset",
                    config |-> [format |-> f, type |-> t, framing |-> fr,
                                kafka_output |-> k]]

NextMerger ==
    \/ start
    \/ frame

SpecMerger == InitMerger /\ [][NextMerger]_vars

(***************************************************************************)
(* An output framing with SyslenMerger feeds one connection read by the    *)
(* syslen splitter: merger/syslen_merger.rs, splitter/syslen_splitter.rs.  *)
(***************************************************************************)

\* vectors sent over the connection
MaxVectors == 2
\* bytes of a short vector
MaxShort == 2

\* the vectors sent: short ones with spaces, digits and line feeds, and one
\* long enough for a length prefix of two digits
WireBodies ==
    UNION {[1..k -> {"a", "SP", "1", "LF"}] : k \in 0..MaxShort}
        \cup {[i \in 1..MaxBody |-> "a"]}

notWire == <<pipeVars, fileVars, redis, decoding, encoding, input>>

\* merger.frame(&mut bytes) and the write of the framed vector
FrameVector ==
    /\ framing.pc = "wire"
    /\ framing.pending # <<>>
    /\ framing' = [framing EXCEPT
                      !.pending = Tail(@),
                      !.bytes = @ \o SyslenMergerFrame(Head(framing.pending))]
    /\ UNCHANGED <<notWire, splitter>>

\* the sender is done and closes; handle_client runs the splitter of the
\* framing on the bytes of the connection
handle_client ==
    /\ framing.pc = "wire"
    /\ framing.pending = <<>>
    /\ framing' = [framing EXCEPT !.pc = "closed"]
    /\ splitter.pc = "wait"
    /\ splitter' = [splitter EXCEPT !.stream = framing.bytes, !.pc = "read"]
    /\ UNCHANGED notWire

InitWire ==
    /\ InitWith({c \in PipelineConfigs :
                    c.output_type = "debug" /\ c.queue_size = 1 /\ c.clients = 1})
    /\ NoFile
    /\ NoRedis
    /\ splitter = [kind |-> "syslen", stream |-> <<>>, pos |-> 0, pc |-> "wait",
                   start |-> 0, to_read |-> 0, line |-> <<>>, frames |-> <<>>,
                   event |-> "none"]
    /\ NoEncoder
    /\ NoInput
    /\ decoding = [pc |-> "none"]
    /\ \E bodies \in UNION {[1..k -> WireBodies] : k \in 0..MaxVectors} :
         framing = [pc |-> "wire", merger |-> "syslen", bodies |-> bodies,
                    pending |-> bodies, bytes |-> <<>>]

NextWire ==
    \/ FrameVector
    \/ handle_client
    \/ read_msglen
    \/ read_exact
    \/ SyslenFrame

\* the sending thread and the splitter thread keep running
SpecWire == InitWire /\ [][NextWire]_vars /\ WF_vars(NextWire)

(***************************************************************************)
(* The decoders (decoder/rfc5424_decoder.rs, rfc3164_decoder.rs,           *)
(* gelf_decoder.rs, ltsv_decoder.rs) and handle_message of the capnp       *)
(* splitter, as far as the numbers of a Record go: ts, facility, severity. *)
(* An Option is the empty set or a set of one value; an f64 is a whole     *)
(* number of seconds or NaN.                                               *)
(***************************************************************************)

F64(v) == [nan |-> FALSE, v |-> v]
NaN == [nan |-> TRUE, v |-> 0]

FACILITY_MAX == 31
SEVERITY_MAX == 7

\* the texts between "<" and ">", and the texts of a level
NumberTexts == UNION {[1..k -> {"0", "1", "2", "5", "6", "x"}] : k \in 0..MaxDigits}

\* str::parse::<u8>()
ParseU8(s) ==
    IF ParseOk(s) /\ ParseValue(s) <= 255 THEN {ParseValue(s)} ELSE {}

\* a date and time of day: the first second or the one after it of the
\* first day of a year, at an offset of whole hours from UTC
Dates == [year : {1969, 1970, 1971}, second : {0, 1}, offset : {-1, 0, 1}]

\* DateTime::timestamp(), OffsetDateTime::unix_timestamp()
Timestamp(d) == (d.year - 1970) * 365 * 86400 + d.second - d.offset * 3600

\* what stands where a date is expected: a date or something else
DateTexts == [ok : {TRUE}, date : Dates]
                \cup {[ok |-> FALSE, date |-> [year |-> 1970, second |-> 0, offset |-> 0]]}

\* rfc3339_to_unix
rfc3339_to_unix(text) == IF text.ok THEN {F64(Timestamp(text.date))} ELSE {}

Err == [ok |-> FALSE]
Record(ts, hostname, facility, severity) ==
    [ok |-> TRUE, ts |-> ts, hostname |-> hostname, facility |-> facility,
     severity |-> severity]

\* the texts where a host name is expected: nothing, or a name
HostTexts == {"", "h"}

\* what a key holds where a host name is expected: no such key, a value
\* that is no string, or a string
HostValues == {[type |-> "absent", s |-> ""], [type |-> "number", s |-> ""]}
                 \cup [type : {"string"}, s : HostTexts]

parse_pri_version_NoShift(pri, version) ==
    IF ParseU8(pri) = {} \/ version # "1" THEN {}
    ELSE LET pri_encoded == CHOOSE v \in ParseU8(pri) : TRUE
         IN  {[facility |-> pri_encoded, severity |-> pri_encoded % 8]}

\* parse_pri_version of the RFC 5424 decoder
parse_pri_version(pri, version) ==
    IF ParseU8(pri) = {} \/ version # "1" THEN {}
    ELSE LET pri_encoded == CHOOSE v \in ParseU8(pri) : TRUE
         IN  {[facility |-> pri_encoded \div 8, severity |-> pri_encoded % 8]}

\* the parts of the line that splitn(7, ' ') hands out
RFC5424Inputs == [pri : NumberTexts, version : {"1", "2"}, ts : DateTexts,
                  hostname : HostTexts]

\* RFC5424Decoder::decode
RFC5424Decode(in) ==
    LET pri_version == parse_pri_version(in.pri, in.version)
        ts == rfc3339_to_unix(in.ts)
    IN  IF pri_version = {} \/ ts = {} THEN Err
        ELSE LET p == CHOOSE x \in pri_version : TRUE
                 t == CHOOSE x \in ts : TRUE
             IN  Record(t, in.hostname, {p.facility}, {p.severity})

\* the year that OffsetDateTime::now_utc().year() answers
CurrentYears == {1971}

\* the line in the standard shape, whose tokens split_whitespace() hands
\* out and are never empty, or in the custom shape "host: date: message"
RFC3164Shapes == [custom : {FALSE}, hostname : {"h"}]
                    \cup [custom : {TRUE}, hostname : HostTexts]

RFC3164Inputs ==
    [has_pri : {TRUE}, pri : NumberTexts, has_year : BOOLEAN, ts : DateTexts,
     shape : RFC3164Shapes]
       \cup [has_pri : {FALSE}, pri : {<<>>}, has_year : BOOLEAN, ts : DateTexts,
             shape : RFC3164Shapes]

\* parse_strip_pri of the RFC 3164 decoder
parse_strip_pri(in) ==
    IF ~in.has_pri THEN {[facility |-> {}, severity |-> {}]}
    ELSE IF ParseU8(in.pri) = {} THEN {}
    ELSE LET npri == CHOOSE v \in ParseU8(in.pri) : TRUE
         IN  {[facility |-> {npri \div 8}, severity |-> {npri % 8}]}

\* parse_date: a date without a year is of the current year
parse_date(in, current_year) ==
    IF ~in.ts.ok THEN {}
    ELSE IF in.has_year THEN {F64(Timestamp(in.ts.date))}
    ELSE {F64(Timestamp([in.ts.date EXCEPT !.year = current_year]))}

\* RFC3164Decoder::decode
RFC3164Decode(in, current_year) ==
    LET pri == parse_strip_pri(in)
        ts == parse_date(in, current_year)
    IN  IF pri = {} \/ ts = {} THEN Err
        ELSE LET p == CHOOSE x \in pri : TRUE
                 t == CHOOSE x \in ts : TRUE
             IN  Record(t, in.shape.hostname, p.facility, p.severity)

\* a JSON value under a key: none, a string, or a whole number
JsonValues == {[type |-> "absent", n |-> 0], [type |-> "string", n |-> 0]}
                 \cup [type : {"number"}, n : -1..(SEVERITY_MAX + 2)]

GelfInputs == [timestamp : JsonValues, level : JsonValues, host : HostValues]

\* GelfDecoder::decode; now is what PreciseTimestamp::now() answers
GelfDecode(in, now_ts) ==
    IF in.timestamp.type = "string" THEN Err
    ELSE IF in.level.type = "string" THEN Err
    ELSE IF in.level.type = "number" /\ in.level.n < 0 THEN Err
    ELSE IF in.level.type = "number" /\ in.level.n > SEVERITY_MAX THEN Err
    ELSE IF in.host.type # "string" THEN Err
    ELSE Record(IF in.timestamp.type = "absent" THEN F64(now_ts)
                ELSE F64(in.timestamp.n),
                in.host.s,
                {},
                IF in.level.type = "absent" THEN {} ELSE {in.level.n})

\* the text behind "time:": a number, NaN, a date or something else
TimeTexts == [kind : {"unix"}, value : {F64(-1), F64(0), F64(1), NaN}]
                \cup [kind : {"date"}, value : DateTexts]

\* the pair host: of an LTSV line, the host name of a capnp message
TextHosts == {h \in HostValues : h.type # "number"}

LtsvInputs ==
    [has_time : {TRUE}, time : TimeTexts, has_level : {TRUE}, level : NumberTexts,
     host : TextHosts]
       \cup [has_time : {TRUE}, time : TimeTexts, has_level : {FALSE},
             level : {<<>>}, host : TextHosts]
       \cup [has_time : {FALSE}, time : {[kind |-> "unix", value |-> NaN]},
             has_level : {FALSE}, level : {<<>>}, host : TextHosts]

\* parse_ts of the LTSV decoder: unix_strtime_to_unix, or else
\* rfc3339_to_unix, or else english_time_to_unix
ltsv_parse_ts(time) ==
    IF time.kind = "unix" THEN {time.value} ELSE rfc3339_to_unix(time.value)

\* LTSVDecoder::decode
LtsvDecode(in) ==
    LET ts == IF in.has_time THEN ltsv_parse_ts(in.time) ELSE {}
    IN  IF in.has_time /\ ts = {} THEN Err
        ELSE IF in.has_level /\ ParseU8(in.level) = {} THEN Err
        ELSE IF in.has_level /\ (CHOOSE v \in ParseU8(in.level) : TRUE) > 7 THEN Err
        ELSE IF ts = {} THEN Err
        ELSE IF in.host.type = "absent" THEN Err
        ELSE Record(CHOOSE x \in ts : TRUE, in.host.s, {},
                    IF in.has_level THEN ParseU8(in.level) ELSE {})

\* a u8 of a Cap'n Proto message
U8Values == {0, SEVERITY_MAX, SEVERITY_MAX + 1, FACILITY_MAX, FACILITY_MAX + 1, 255}

CapnpInputs == [ts : {F64(-1), F64(0), F64(1), NaN},
                facility : U8Values, severity : U8Values, hostname : TextHosts]

\* handle_message of the capnp splitter
handle_message(in) ==
    IF in.ts.nan \/ in.ts.v <= 0 THEN Err
    ELSE IF in.hostname.type = "absent" THEN Err
    ELSE Record(in.ts, in.hostname.s,
                IF in.facility <= FACILITY_MAX THEN {in.facility} ELSE {},
                IF in.severity <= SEVERITY_MAX THEN {in.severity} ELSE {})

\* a decoder decodes the record it was given
Decode ==
    /\ decoding.pc = "decode"
    /\ \/ /\ decoding.kind = "rfc5424"
          /\ decoding' = [decoding EXCEPT !.pc = "done",
                                          !.result = RFC5424Decode(decoding.input)]
       \/ /\ decoding.kind = "rfc3164"
          /\ \E y \in CurrentYears :
               decoding' = [decoding EXCEPT !.pc = "done",
                               !.result = RFC3164Decode(decoding.input, y)]
       \/ /\ decoding.kind = "gelf"
          /\ \E now_ts \in 1..MaxNow :
               decoding' = [decoding EXCEPT !.pc = "done",
                               !.result = GelfDecode(decoding.input, now_ts)]
       \/ /\ decoding.kind = "ltsv"
          /\ decoding' = [decoding EXCEPT !.pc = "done",
                                          !.result = LtsvDecode(decoding.input)]
       \/ /\ decoding.kind = "capnp"
          /\ decoding' = [decoding EXCEPT !.pc = "done",
                                          !.result = handle_message(decoding.input)]
    /\ UNCHANGED notDecoding

DecoderInputs(kind) ==
    IF kind = "rfc5424" THEN RFC5424Inputs
    ELSE IF kind = "rfc3164" THEN RFC3164Inputs
    ELSE IF kind = "gelf" THEN GelfInputs
    ELSE IF kind = "ltsv" THEN LtsvInputs
    ELSE CapnpInputs

InitDecode ==
    /\ InitWith({c \in PipelineConfigs :
                    c.output_type = "debug" /\ c.queue_size = 1 /\ c.clients = 1})
    /\ NoFile
    /\ NoRedis
    /\ NoSplitter
    /\ NoEncoder
    /\ NoInput
    /\ framing = [pc |-> "none"]
    /\ \E kind \in {"rfc5424", "rfc3164", "gelf", "ltsv", "capnp"} :
         \E in \in DecoderInputs(kind) :
            decoding = [pc |-> "decode", kind |-> kind, input |-> in, result |-> Err]

NextDecode == Decode

SpecDecode == InitDecode /\ [][NextDecode]_vars

(***************************************************************************)
(* RFC 5424 at the level of characters: RFC5424Decoder::decode with        *)
(* parse_data and parse_sd_data (decoder/rfc5424_decoder.rs), Display for  *)
(* StructuredData (record.rs) and RFC5424Encoder::encode                   *)
(* (encoder/rfc5424_encoder.rs).  A line is a sequence of characters; "SP" *)
(* is the space, "DQ" the double quote, "BS" the backslash, and "T" stands *)
(* for the text of one RFC 3339 date.                                      *)
(***************************************************************************)

\* str::find: the first place of c in s from place from on, 0 for none
Find(s, c, from) ==
    LET at == {j \in from..Len(s) : s[j] = c}
    IN  IF at = {} THEN 0 ELSE CHOOSE j \in at : \A k \in at : j <= k

RECURSIVE splitn(_, _, _)
\* s.splitn(n, sep), collected
splitn(s, n, sep) ==
    IF n <= 1 \/ Find(s, sep, 1) = 0 THEN <<s>>
    ELSE <<SubSeq(s, 1, Find(s, sep, 1) - 1)>>
            \o splitn(SubSeq(s, Find(s, sep, 1) + 1, Len(s)), n - 1, sep)

RECURSIVE trim(_)
\* str::trim
trim(s) ==
    IF s # <<>> /\ s[1] = "SP" THEN trim(Tail(s))
    ELSE IF s # <<>> /\ s[Len(s)] = "SP" THEN trim(SubSeq(s, 1, Len(s) - 1))
    ELSE s

\* parse_msg: the message from the 0-based offset on, None when it is blank
parse_msg(line, offset) ==
    IF offset > Len(line) THEN {}
    ELSE IF trim(SubSeq(line, offset + 1, Len(line))) = <<>> THEN {}
    ELSE {trim(SubSeq(line, offset + 1, Len(line)))}

RECURSIVE unescape_from(_, _)
\* the loop of unescape_sd_value, esc being its flag
unescape_from(value, esc) ==
    IF value = <<>> THEN <<>>
    ELSE IF ~esc
    THEN IF Head(value) = "BS" THEN unescape_from(Tail(value), TRUE)
         ELSE <<Head(value)>> \o unescape_from(Tail(value), FALSE)
    ELSE IF Head(value) \in {"DQ", "BS", "]"}
    THEN <<Head(value)>> \o unescape_from(Tail(value), FALSE)
    ELSE <<"BS", Head(value)>> \o unescape_from(Tail(value), FALSE)

unescape_sd_value(value) == unescape_from(value, FALSE)

\* the characters 33 to 126 without the quote, "=" and "]"
is_sd_name(c) == c \notin {"SP", "DQ", "=", "]"}

RECURSIVE sd_scan(_, _, _)
\* the loop over sd.char_indices() in parse_sd_data, the arms of its match
\* in their order; after_sd is the place of the closing "]", 0 for none
sd_scan(sd, i, st) ==
    IF i > Len(sd) THEN st
    ELSE LET c == sd[i]
             named == st.name # {}
         IN  IF c = "SP" /\ ~st.esc /\ ~st.in_name /\ ~named
             THEN sd_scan(sd, i + 1, st)
             ELSE IF c = "]" /\ ~st.esc /\ ~st.in_name /\ ~named
             THEN [st EXCEPT !.after_sd = i]
             ELSE IF ~st.esc /\ is_sd_name(c) /\ ~st.in_name /\ ~named
             THEN sd_scan(sd, i + 1, [st EXCEPT !.in_name = TRUE, !.name_start = i])
             ELSE IF is_sd_name(c) /\ st.in_name /\ ~named
             THEN sd_scan(sd, i + 1, st)
             ELSE IF c = "=" /\ ~st.esc /\ st.in_name
             THEN sd_scan(sd, i + 1,
                          [st EXCEPT !.name = {SubSeq(sd, st.name_start, i - 1)},
                                     !.in_name = FALSE])
             ELSE IF c = "DQ" /\ ~st.esc /\ named /\ ~st.in_value
             THEN sd_scan(sd, i + 1,
                          [st EXCEPT !.in_value = TRUE, !.value_start = i + 1])
             ELSE IF c = "BS" /\ ~st.esc /\ st.in_value
             THEN sd_scan(sd, i + 1, [st EXCEPT !.esc = TRUE])
             ELSE IF c = "DQ" /\ ~st.esc /\ st.in_value
             THEN sd_scan(sd, i + 1,
                          [st EXCEPT
                             !.in_value = FALSE,
                             !.name = {},
                             !.pairs = Append(@,
                                <<<<"_">> \o (CHOOSE x \in st.name : TRUE),
                                  unescape_sd_value(
                                     SubSeq(sd, st.value_start, i - 1))>>)])
             ELSE IF st.in_value
             THEN sd_scan(sd, i + 1, [st EXCEPT !.esc = FALSE])
             ELSE IF c = "DQ" /\ ~st.esc /\ ~st.in_name /\ ~named
             THEN sd_scan(sd, i + 1, st)
             ELSE [st EXCEPT !.err = TRUE]

\* parse_sd_data: the block that starts at the 0-based offset of line
parse_sd_data(line, offset) ==
    LET parts == splitn(SubSeq(line, offset + 1, Len(line)), 2, "SP")
    IN  IF Len(parts) < 2 THEN Err
        ELSE LET st == sd_scan(parts[2], 1,
                               [in_name |-> FALSE, in_value |-> FALSE,
                                name_start |-> 0, value_start |-> 0,
                                name |-> {}, esc |-> FALSE, pairs |-> <<>>,
                                after_sd |-> 0, err |-> FALSE])
             IN  IF st.err \/ st.after_sd = 0 THEN Err
                 ELSE [ok |-> TRUE,
                       sd |-> [sd_id |-> {parts[1]}, pairs |-> st.pairs],
                       leftover |-> parts[2], offset |-> st.after_sd]

RECURSIVE parse_sds(_, _, _)
\* the loop while next_sd of parse_data
parse_sds(leftover, offset, sd_vec) ==
    LET r == parse_sd_data(leftover, offset + 1)
    IN  IF ~r.ok THEN Err
        ELSE IF r.offset >= Len(r.leftover) THEN Err
        ELSE IF r.leftover[r.offset + 1] = "["
        THEN parse_sds(r.leftover, r.offset, Append(sd_vec, r.sd))
        ELSE IF r.leftover[r.offset + 1] = "SP"
        THEN [ok |-> TRUE, sd |-> Append(sd_vec, r.sd),
              msg |-> parse_msg(r.leftover, r.offset)]
        ELSE Err

\* parse_data: the structured data and the message
parse_data(line) ==
    IF line = <<>> THEN Err
    ELSE IF line[1] = "-" THEN [ok |-> TRUE, sd |-> <<>>, msg |-> parse_msg(line, 1)]
    ELSE IF line[1] = "[" THEN parse_sds(line, 0, <<>>)
    ELSE Err

\* parse_pri_version on the characters of the first part of the line
parse_pri_version_text(part) ==
    IF part = <<>> \/ part[1] # "<" THEN {}
    ELSE LET parts == splitn(Tail(part), 2, ">")
         IN  IF Len(parts) < 2 THEN {}
             ELSE parse_pri_version(parts[1],
                                    IF parts[2] = <<"1">> THEN "1" ELSE "2")

\* RFC5424Decoder::decode of a line without a byte order mark
decode5424(line) ==
    LET parts == splitn(line, 7, "SP")
    IN  IF line = <<>> \/ line[1] # "<" \/ Len(parts) < 7 THEN Err
        ELSE LET pri_version == parse_pri_version_text(parts[1])
                 data == parse_data(parts[7])
             IN  IF pri_version = {} \/ parts[2] # <<"T">> \/ ~data.ok THEN Err
                 ELSE LET p == CHOOSE x \in pri_version : TRUE
                      IN  [ok |-> TRUE, ts |-> F64(1), hostname |-> parts[3],
                           facility |-> {p.facility}, severity |-> {p.severity},
                           appname |-> {parts[4]}, procid |-> {parts[5]},
                           msgid |-> {parts[6]}, sd |-> data.sd, msg |-> data.msg]

\* the text of an Option<String>, or the other text for None
OrElse(option, other) == IF option = {} THEN other ELSE CHOOSE x \in option : TRUE

RECURSIVE DisplayPairs(_)
\* Display for StructuredData: the pairs, whose values are strings
DisplayPairs(pairs) ==
    IF pairs = <<>> THEN <<>>
    ELSE LET name == pairs[1][1]
         IN  <<"SP">> \o (IF name # <<>> /\ name[1] = "_" THEN Tail(name) ELSE name)
                \o <<"=", "DQ">> \o pairs[1][2] \o <<"DQ">>
                \o DisplayPairs(Tail(pairs))

\* Display for StructuredData
Display(sd) == <<"[">> \o OrElse(sd.sd_id, <<>>) \o DisplayPairs(sd.pairs) \o <<"]">>

RECURSIVE DisplayAll(_)
\* for sd in sd_vec { res.push_str(sd.to_string()) }
DisplayAll(sd_vec) ==
    IF sd_vec = <<>> THEN <<>> ELSE Display(sd_vec[1]) \o DisplayAll(Tail(sd_vec))

\* RFC5424Encoder::encode; a Record without structured data has sd = None
encode5424(record) ==
    (IF record.facility # {} /\ record.severity # {}
     THEN <<"<">> \o ToDecimal((((CHOOSE f \in record.facility : TRUE) * 8) % 256)
                                  + ((CHOOSE s \in record.severity : TRUE) % 8))
             \o <<">">>
     ELSE <<"<", "1", "3", ">">>)
      \o <<"1", "SP", "T", "SP">> \o record.hostname \o <<"SP">>
      \o (IF record.appname = {} THEN <<>>
          ELSE OrElse(record.appname, <<>>) \o <<"SP">>)
      \o OrElse(record.procid, <<"-">>) \o <<"SP">>
      \o OrElse(record.msgid, <<"-">>) \o <<"SP">>
      \o (IF record.sd = <<>> THEN <<"-", "SP">>
          ELSE DisplayAll(record.sd) \o <<"SP">>)
      \o OrElse(record.msg, <<>>)

\* the text between the quotes of a value, as it stands in a line
RawValues == UNION {[1..k -> {"a", "DQ", "BS", "]"}] : k \in 0..MaxValue}

\* one block with one pair, with the name of its id and of its key
Block(sd_id, key, raw) == <<"[", sd_id, "SP", key, "=", "DQ">> \o raw \o <<"DQ", "]">>

\* the structured data of a line: none, one block, two blocks, or one
\* block with two pairs
SdTexts ==
    {<<"-">>}
       \cup {Block("i", "k", raw) : raw \in RawValues}
       \cup {Block("i", "k", r1) \o Block("j", "l", r2) :
                r1, r2 \in {r \in RawValues : Len(r) <= 1}}
       \cup {<<"[", "i", "SP", "k", "=", "DQ">> \o r1 \o <<"DQ", "SP", "l", "=", "DQ">>
                \o r2 \o <<"DQ", "]">> :
                r1, r2 \in {r \in RawValues : Len(r) <= 1}}

\* the priorities of the lines: 0, the default, facility 23 with severity
\* 7, the largest u8 and one that is too large
LinePris == {<<"0">>, <<"1", "3">>, <<"1", "9", "1">>, <<"2", "5", "5">>,
             <<"2", "5", "6">>}

\* lines in the shape "<pri>1 date host app procid msgid sd msg"
Lines5424 ==
    {<<"<">> \o pri \o <<">", "1", "SP", "T", "SP", "h", "SP", "a", "SP", "p",
                          "SP", "m", "SP">> \o sd \o <<"SP", "g">> :
        pri \in LinePris, sd \in SdTexts}

\* Records as the decoders hand them to the encoder, without structured
\* data
Records5424 ==
    [ok : {TRUE}, ts : {F64(1)}, hostname : {<<"h">>},
     facility : {{}} \cup {{f} : f \in {0, 23, FACILITY_MAX}},
     severity : {{}} \cup {{s} : s \in 0..SEVERITY_MAX},
     appname : {{}, {<<"a">>}}, procid : {{}, {<<"p">>}}, msgid : {{<<"m">>}},
     sd : {<<>>}, msg : {{<<"g">>}}]

Last(trail) == trail[Len(trail)]

\* decoder.decode(line): the line is the last of the trail
DecodeLine ==
    /\ decoding.pc = "decode"
    /\ LET r == decode5424(Last(decoding.trail))
       IN  IF ~r.ok THEN decoding' = [decoding EXCEPT !.pc = "rejected"]
           ELSE decoding' = [decoding EXCEPT
                    !.trail = Append(@, r),
                    !.pc = IF Len(decoding.trail) >= 2 THEN "done" ELSE "encode"]
    /\ UNCHANGED notDecoding

\* encoder.encode(record): the Record is the last of the trail
EncodeRecord ==
    /\ decoding.pc = "encode"
    /\ decoding' = [decoding EXCEPT !.trail = Append(@, encode5424(Last(@))),
                                    !.pc = "decode"]
    /\ UNCHANGED notDecoding

\* a line arrives at the RFC 5424 decoder, or a Record at the RFC 5424
\* encoder whose output another RFC 5424 decoder reads
InitCodec ==
    /\ InitWith({c \in PipelineConfigs :
                    c.output_type = "debug" /\ c.queue_size = 1 /\ c.clients = 1})
    /\ NoFile
    /\ NoRedis
    /\ NoSplitter
    /\ NoEncoder
    /\ NoInput
    /\ framing = [pc |-> "none"]
    /\ \/ \E line \in Lines5424 :
            decoding = [pc |-> "decode", from |-> "line", trail |-> <<line>>]
       \/ \E record \in Records5424 :
            decoding = [pc |-> "encode", from |-> "record", trail |-> <<record>>]

NextCodec ==
    \/ DecodeLine
    \/ EncodeRecord

SpecCodec == InitCodec /\ [][NextCodec]_vars

(***************************************************************************)
(* The GELF and the Cap'n Proto encoders at work on one Record.  A JSON    *)
(* object is a function from its keys to its values; an SDValue and a      *)
(* JSON or Cap'n Proto value are a tag with the text of the content.       *)
(***************************************************************************)

FACILITY_MISSING == 255
SEVERITY_MISSING == 255

SDValue(type, v) == [type |-> type, v |-> v]

\* the values of the pairs: SDValue::String and SDValue::U64
SDValues == {SDValue("String", "x"), SDValue("U64", "3")}

\* the names of the pairs: an ordinary one and one of the GELF fields
PairNames == {"_k", "version"}

RECURSIVE VecsUpTo(_, _)
VecsUpTo(S, n) ==
    IF n = 0 THEN {<<>>}
    ELSE LET shorter == VecsUpTo(S, n - 1)
         IN  shorter \cup {Append(v, x) : v \in shorter, x \in S}

\* StructuredData { sd_id, pairs }
StructuredData ==
    [sd_id : {{}, {"i"}}, pairs : VecsUpTo(PairNames \X SDValues, MaxPairs)]

\* the Records an encoder is given; a decoder sets sd to None or to a
\* vector that is not empty
EncoderRecords ==
    [ts : {F64(1)}, hostname : {"", "h"}, facility : {{}},
     severity : {{}, {1}}, appname : {{"a"}}, procid : {{}}, msgid : {{}},
     msg : {{}, {"g"}}, full_msg : {{}},
     sd : {{}} \cup {{sd_vec} : sd_vec \in VecsUpTo(StructuredData, MaxBlocks) \ {<<>>}}]

\* output.gelf_extra and output.capnp_extra
Extras == {<<>>, <<<<"x", "e">>>>, <<<<"version", "e">>>>}

Value(type, v) == [type |-> type, v |-> v]

\* ObjectBuilder::insert on the BTreeMap of the object
insert(map, name, value) ==
    [k \in DOMAIN map \cup {name} |-> IF k = name THEN value ELSE map[k]]

\* match value { SDValue::String(value) => Value::String(..), .. }
json_value(value) ==
    CASE value.type = "String" -> Value("String", value.v)
      [] value.type = "Bool" -> Value("Bool", value.v)
      [] value.type = "F64" -> Value("F64", value.v)
      [] value.type = "I64" -> Value("I64", value.v)
      [] value.type = "U64" -> Value("U64", value.v)
      [] OTHER -> Value("Null", "null")

\* for (name, value) in &sd.pairs { map = map.insert(name, value) }
RECURSIVE insert_pairs(_, _)
insert_pairs(map, pairs) ==
    IF pairs = <<>> THEN map
    ELSE insert_pairs(insert(map, pairs[1][1], json_value(pairs[1][2])), Tail(pairs))

\* for &ref sd in &sd_vec { sd_id, then the pairs }
RECURSIVE insert_sds(_, _)
insert_sds(map, sd_vec) ==
    IF sd_vec = <<>> THEN map
    ELSE LET sd == sd_vec[1]
             with_id == IF sd.sd_id # {}
                        THEN insert(map, "sd_id",
                                    Value("String", CHOOSE x \in sd.sd_id : TRUE))
                        ELSE map
         IN  insert_sds(insert_pairs(with_id, sd.pairs), Tail(sd_vec))

\* for (name, value) in self.extra.iter().cloned()
RECURSIVE insert_extra(_, _)
insert_extra(map, extra) ==
    IF extra = <<>> THEN map
    ELSE insert_extra(insert(map, extra[1][1], Value("String", extra[1][2])),
                      Tail(extra))

\* one optional field of the object
insert_some(map, name, type, option) ==
    IF option = {} THEN map
    ELSE insert(map, name, Value(type, CHOOSE x \in option : TRUE))

\* GelfEncoder::encode: the object that is serialized
gelf_encode(record, extra) ==
    LET m0 == [k \in {} |-> Value("Null", "null")]
        m1 == insert(m0, "version", Value("String", "1.1"))
        m2 == insert(m1, "host",
                     Value("String", IF record.hostname = "" THEN "unknown"
                                     ELSE record.hostname))
        m3 == insert(m2, "short_message",
                     Value("String", IF record.msg = {} THEN "-"
                                     ELSE CHOOSE x \in record.msg : TRUE))
        m4 == insert(m3, "timestamp", Value("F64", record.ts))
        m5 == insert_some(m4, "level", "U64", record.severity)
        m6 == insert_some(m5, "full_message", "String", record.full_msg)
        m7 == insert_some(m6, "application_name", "String", record.appname)
        m8 == insert_some(m7, "process_id", "String", record.procid)
        m9 == IF record.sd = {} THEN m8
              ELSE insert_sds(m8, CHOOSE x \in record.sd : TRUE)
    IN  insert_extra(m9, extra)

\* pair.set_key(&name) and v.set_string(..), v.set_u64(..), ..
capnp_pair(pair) ==
    [key |-> pair[1],
     value |-> CASE pair[2].type = "String" -> Value("string", pair[2].v)
                 [] pair[2].type = "Bool" -> Value("bool", pair[2].v)
                 [] pair[2].type = "F64" -> Value("f64", pair[2].v)
                 [] pair[2].type = "I64" -> Value("i64", pair[2].v)
                 [] pair[2].type = "U64" -> Value("u64", pair[2].v)
                 [] OTHER -> Value("null", "null")]

capnp_pairs(pairs) == [i \in 1..Len(pairs) |-> capnp_pair(pairs[i])]

\* the pairs of every block, one after the other
RECURSIVE AllPairs(_)
AllPairs(sd_vec) ==
    IF sd_vec = <<>> THEN <<>> ELSE sd_vec[1].pairs \o AllPairs(Tail(sd_vec))

build_record_AllBlocks(record, extra) ==
    LET sd_vec == IF record.sd = {} THEN <<>> ELSE CHOOSE x \in record.sd : TRUE
    IN  [ts |-> record.ts,
         hostname |-> record.hostname,
         facility |-> IF record.facility = {} THEN FACILITY_MISSING
                      ELSE CHOOSE x \in record.facility : TRUE,
         severity |-> IF record.severity = {} THEN SEVERITY_MISSING
                      ELSE CHOOSE x \in record.severity : TRUE,
         appname |-> record.appname,
         procid |-> record.procid,
         msgid |-> record.msgid,
         msg |-> record.msg,
         full_msg |-> record.full_msg,
         sd_id |-> IF sd_vec = <<>> THEN {} ELSE sd_vec[1].sd_id,
         pairs |-> capnp_pairs(AllPairs(sd_vec)),
         extra |-> [i \in 1..Len(extra) |->
                       [key |-> extra[i][1], value |-> Value("string", extra[i][2])]]]

\* build_record: the root of the message; let sd = &sd_vec[0]
build_record(record, extra) ==
    LET sd_vec == IF record.sd = {} THEN <<>> ELSE CHOOSE x \in record.sd : TRUE
    IN  [ts |-> record.ts,
         hostname |-> record.hostname,
         facility |-> IF record.facility = {} THEN FACILITY_MISSING
                      ELSE CHOOSE x \in record.facility : TRUE,
         severity |-> IF record.severity = {} THEN SEVERITY_MISSING
                      ELSE CHOOSE x \in record.severity : TRUE,
         appname |-> record.appname,
         procid |-> record.procid,
         msgid |-> record.msgid,
         msg |-> record.msg,
         full_msg |-> record.full_msg,
         sd_id |-> IF sd_vec = <<>> THEN {} ELSE sd_vec[1].sd_id,
         pairs |-> IF sd_vec = <<>> THEN <<>> ELSE capnp_pairs(sd_vec[1].pairs),
         extra |-> [i \in 1..Len(extra) |->
                       [key |-> extra[i][1], value |-> Value("string", extra[i][2])]]]

\* GelfEncoder::encode
GelfEncode ==
    /\ encoding.pc = "encode"
    /\ encoding.encoder = "gelf"
    /\ encoding' = [encoding EXCEPT
                       !.pc = "done",
                       !.out = {gelf_encode(encoding.record, encoding.extra)}]
    /\ UNCHANGED notEncoding

\* CapnpEncoder::encode
CapnpEncode ==
    /\ encoding.pc = "encode"
    /\ encoding.encoder = "capnp"
    /\ encoding' = [encoding EXCEPT
                       !.pc = "done",
                       !.out = {build_record(encoding.record, encoding.extra)}]
    /\ UNCHANGED notEncoding

\* a Record arrives at an encoder built from the configuration
InitEncode ==
    /\ InitWith({c \in PipelineConfigs :
                    c.output_type = "debug" /\ c.queue_size = 1 /\ c.clients = 1})
    /\ NoFile
    /\ NoRedis
    /\ NoSplitter
    /\ NoInput
    /\ framing = [pc |-> "none"]
    /\ decoding = [pc |-> "none"]
    /\ \E e \in {"gelf", "capnp"}, record \in EncoderRecords, extra \in Extras :
          encoding = [pc |-> "encode", encoder |-> e, record |-> record,
                      extra |-> extra, out |-> {}]

NextEncode ==
    \/ GelfEncode
    \/ CapnpEncode

SpecEncode == InitEncode /\ [][NextEncode]_vars

(***************************************************************************)
(* The UDP input with the RFC 3164 decoder and encoder.  A line is a       *)
(* sequence of words and of single spaces "SP"; a datagram is a line as    *)
(* it is, or a zlib or gzip stream of a line.                              *)
(***************************************************************************)

MAX_UDP_PACKET_SIZE == 65527
MAX_COMPRESSION_RATIO == 5

\* the year now_utc() answers and that a line may carry; it has 365 days
Year3164 == CHOOSE y \in CurrentYears : TRUE
YearWords == {"1971"}
MonthWords == {"Jan", "Feb"}
DayWords == {"6", "16", "30"}
TimeWords == {"11:15:24"}
TzWords == {"UTC"}
PriWords == {"<13>", "<999>"}

DayNumber(word) == CASE word = "6" -> 6 [] word = "16" -> 16 [] OTHER -> 30
DaysIn(month) == IF month = "Jan" THEN 31 ELSE 28
DaysBefore(month) == IF month = "Jan" THEN 0 ELSE 31
SecondsOf(word) == 11 * 3600 + 15 * 60 + 24

\* the bytes of a word; "BIG" is a message of five times the largest datagram
Bytes(word) ==
    CASE word \in {"SP", "h", "g", "k", "6"} -> 1
      [] word \in {"16", "30", "TS"} -> 2
      [] word \in {"Jan", "Feb", "UTC"} -> 3
      [] word \in {"1971", "<13>"} -> 4
      [] word = "<999>" -> 5
      [] word = "11:15:24" -> 8
      [] OTHER -> MAX_UDP_PACKET_SIZE * MAX_COMPRESSION_RATIO

RECURSIVE SizeOf(_)
SizeOf(line) == IF line = <<>> THEN 0 ELSE Bytes(line[1]) + SizeOf(Tail(line))

\* str::split_whitespace
split_whitespace(line) == SelectSeq(line, LAMBDA w : w # "SP")

\* [&str]::join(" ")
RECURSIVE join(_)
join(tokens) ==
    IF Len(tokens) <= 1 THEN tokens
    ELSE <<tokens[1], "SP">> \o join(Tail(tokens))

Err3164 == [ok |-> FALSE, panic |-> FALSE]
Panic3164 == [ok |-> FALSE, panic |-> TRUE]

\* parse_strip_pri on the text: the priority is the first word of the line
parse_strip_pri_text(event) ==
    IF event # <<>> /\ event[1] \in PriWords
    THEN IF event[1] = "<13>"
         THEN [ok |-> TRUE, facility |-> {13 \div 8}, severity |-> {13 % 8},
               msg |-> Tail(event)]
         ELSE [ok |-> FALSE, facility |-> {}, severity |-> {}, msg |-> <<>>]
    ELSE [ok |-> TRUE, facility |-> {}, severity |-> {}, msg |-> event]

\* PrimitiveDateTime::parse and the time zone that may follow
parse_date_text(ts_tokens, has_year) ==
    LET idx == IF has_year THEN 4 ELSE 3
        at == IF has_year THEN 1 ELSE 0
    IN  IF Len(ts_tokens) < idx THEN Err3164
        ELSE IF has_year /\ ts_tokens[1] \notin YearWords THEN Err3164
        ELSE IF \/ ts_tokens[at + 1] \notin MonthWords
                \/ ts_tokens[at + 2] \notin DayWords
                \/ ts_tokens[at + 3] \notin TimeWords
             THEN Err3164
        ELSE IF DayNumber(ts_tokens[at + 2]) > DaysIn(ts_tokens[at + 1]) THEN Err3164
        ELSE LET days == (Year3164 - 1970) * 365 + DaysBefore(ts_tokens[at + 1])
                            + DayNumber(ts_tokens[at + 2]) - 1
                 ts == days * 86400 + SecondsOf(ts_tokens[at + 3])
                 tz == Len(ts_tokens) > idx /\ ts_tokens[idx + 1] \in TzWords
                 next == IF tz THEN idx + 1 ELSE idx
             IN  [ok |-> TRUE, ts |-> ts,
                  tokens |-> SubSeq(ts_tokens, next + 1, Len(ts_tokens))]

\* parse_date_token: without a year, or else with one
parse_date_token(ts_tokens) ==
    IF Len(ts_tokens) < 3 THEN Err3164
    ELSE IF parse_date_text(ts_tokens, FALSE).ok THEN parse_date_text(ts_tokens, FALSE)
    ELSE parse_date_text(ts_tokens, TRUE)

\* decode_rfc_standard; _log_tokens[0] panics when no token is left
decode_rfc_standard(pri, msg) ==
    LET tokens_vec == split_whitespace(msg)
    IN  IF Len(tokens_vec) > 3
        THEN LET date == parse_date_token(tokens_vec)
             IN  IF ~date.ok THEN Err3164
                 ELSE IF date.tokens = <<>> THEN Panic3164
                 ELSE [ok |-> TRUE, ts |-> date.ts, hostname |-> date.tokens[1],
                       facility |-> pri.facility, severity |-> pri.severity,
                       msg |-> join(Tail(date.tokens))]
        ELSE Err3164

\* decode_rfc_custom: no line of this model holds ": ", so that split(": ")
\* gives one token and the line is not of the custom shape
decode_rfc_custom(pri, msg) == Err3164

\* RFC3164Decoder::decode
decode3164(line) ==
    LET pri == parse_strip_pri_text(line)
    IN  IF ~pri.ok THEN Err3164
        ELSE LET res == decode_rfc_standard(pri, pri.msg)
             IN  IF res.ok \/ res.panic THEN res ELSE decode_rfc_custom(pri, pri.msg)

\* "[month repr:short]  [day padding:none] [hour]:[minute]:[second] "
format_date(ts) ==
    LET days == ts \div 86400
        doy == (days % 365) + 1
        month == IF doy <= 31 THEN "Jan" ELSE "Feb"
        day == doy - DaysBefore(month)
    IN  <<month, "SP", "SP", CHOOSE w \in DayWords : DayNumber(w) = day, "SP",
          CHOOSE w \in TimeWords : SecondsOf(w) = ts % 86400, "SP">>

\* RFC3164Encoder::encode of a Record of the RFC 3164 decoder, which has
\* no appname, procid, msgid or structured data
encode3164(record, header_time_format) ==
    (IF header_time_format # {} THEN <<"TS">> ELSE <<>>)
       \o (IF record.facility # {} /\ record.severity # {}
           THEN <<CHOOSE w \in {"<13>"} :
                     (CHOOSE f \in record.facility : TRUE) * 8
                        + (CHOOSE s \in record.severity : TRUE) = 13>>
           ELSE <<>>)
       \o format_date(record.ts)
       \o <<record.hostname, "SP">>
       \o record.msg

\* the lines: date, host name and message, with or without a priority, a
\* year and a time zone, one or two spaces between the words
Messages == {<<"g">>, <<"g", "SP", "k">>, <<"g", "SP", "SP", "k">>, <<"BIG">>}
Spaces == {<<"SP">>, <<"SP", "SP">>}

Lines3164 ==
    {pri \o year \o <<month>> \o sp \o <<day, "SP", time, "SP">> \o tz
        \o <<"h", "SP">> \o msg :
        pri \in {<<>>, <<"<13>">>, <<"<999>">>},
        year \in {<<>>, <<"1971", "SP">>},
        month \in MonthWords, sp \in Spaces, day \in DayWords, time \in TimeWords,
        tz \in {<<>>, <<"UTC", "SP">>}, msg \in Messages}

\* what recv_from answers: at most MAX_UDP_PACKET_SIZE bytes, a line or a
\* zlib (78 9c) or gzip (1f 8b 08) stream of a line, maybe corrupted; len
\* is the length of a stream as far as the tests of 8 or 24 bytes see it:
\* one byte less than the test asks for, or not less than the larger one
Datagrams ==
    {d \in [format : {"raw"}, len : {0}, payload : Lines3164, corrupted : {FALSE}] :
        SizeOf(d.payload) <= MAX_UDP_PACKET_SIZE}
       \cup [format : {"zlib"}, len : {7, 24}, payload : Lines3164, corrupted : BOOLEAN]
       \cup [format : {"gzip"}, len : {23, 24}, payload : Lines3164, corrupted : BOOLEAN]

\* handle_record: decode, encode and send
handle_record(line, utf8, header_time_format) ==
    IF ~utf8 THEN [err |-> "Invalid UTF-8 input", out |-> {}, decoded |-> {}]
    ELSE LET decoded == decode3164(line)
         IN  IF ~decoded.ok
             THEN [err |-> IF decoded.panic THEN "panic" ELSE "decode",
                   out |-> {}, decoded |-> {SizeOf(line)}]
             ELSE [err |-> "", out |-> {encode3164(decoded, header_time_format)},
                   decoded |-> {SizeOf(line)}]

\* handle_record_maybe_compressed: read_to_end appends all that the stream
\* expands to; a stream that is cut before the length the magic bytes are
\* looked for at is handled as text and is no UTF-8
handle_record_maybe_compressed(d, header_time_format) ==
    IF d.format = "zlib" /\ d.len >= 8
    THEN IF d.corrupted
         THEN [err |-> "Corrupted compressed (zlib) record", out |-> {}, decoded |-> {}]
         ELSE handle_record(d.payload, TRUE, header_time_format)
    ELSE IF d.format = "gzip" /\ d.len >= 24
    THEN IF d.corrupted
         THEN [err |-> "Corrupted compressed (gzip) record", out |-> {}, decoded |-> {}]
         ELSE handle_record(d.payload, TRUE, header_time_format)
    ELSE handle_record(d.payload, d.format = "raw", header_time_format)

\* socket.recv_from(&mut buf): a datagram, or an error and the loop goes on
RecvFrom ==
    /\ input.pc = "recv"
    /\ input.n < MaxDatagrams
    /\ \/ \E d \in Datagrams :
             input' = [input EXCEPT !.pc = "handle", !.n = @ + 1, !.datagram = {d},
                                    !.res = {}]
       \/ input' = [input EXCEPT !.n = @ + 1, !.datagram = {}, !.res = {}]
    /\ UNCHANGED notInput

\* handle_record_maybe_compressed(line, &tx, &decoder, &encoder), whose
\* error is written to stderr
HandleDatagram ==
    /\ input.pc = "handle"
    /\ input' = [input EXCEPT
                    !.pc = "recv",
                    !.res = {handle_record_maybe_compressed(
                                CHOOSE d \in input.datagram : TRUE,
                                input.header_time_format)}]
    /\ UNCHANGED notInput

\* UdpInput::accept with the RFC 3164 decoder and encoder
InitUdp ==
    /\ InitWith({c \in PipelineConfigs :
                    c.output_type = "debug" /\ c.queue_size = 1 /\ c.clients = 1})
    /\ NoFile
    /\ NoRedis
    /\ NoSplitter
    /\ NoEncoder
    /\ framing = [pc |-> "none"]
    /\ decoding = [pc |-> "none"]
    /\ \E fmt \in {{}, {"TS"}} :
          input = [pc |-> "recv", n |-> 0, header_time_format |-> fmt,
                   datagram |-> {}, res |-> {}]

NextUdp ==
    \/ RecvFrom
    \/ HandleDatagram

SpecUdp == InitUdp /\ [][NextUdp]_vars

(***************************************************************************)
(* The file input: FileDiscovery watches the directory of input.src and    *)
(* starts a FileWorker thread per event; a FileWorker follows one file.    *)
(* A file is the number of its lines; line i of a file is enqueued as many *)
(* times as enqueued[file][i] says.                                        *)
(***************************************************************************)

\* the files of the watched directory; input.src is *.log
Paths == {"a.log", "b.log", "c.txt"}
matches_path(path) == path \in {"a.log", "b.log"}

NoLines == [i \in 1..MaxLines |-> 0]

\* FileWorker::new and the start of FileWorker::run: its own watcher, and
\* FollowReader::new, which seeks to the end when from_tail
start_worker(in, path, from_tail) ==
    [in EXCEPT !.workers = Append(@, [path |-> path,
                                      pos |-> IF from_tail THEN in.files[path] ELSE 0,
                                      woken |-> FALSE])]

\* start_initial_workers: glob(path_match), each from the tail
RECURSIVE start_initial_workers(_, _)
start_initial_workers(in, paths) ==
    IF paths = {} THEN in
    ELSE LET path == CHOOSE p \in paths : TRUE
         IN  start_initial_workers(start_worker(in, path, TRUE), paths \ {path})

\* FileDiscovery::run up to its loop
DiscoveryStart ==
    /\ input.pc = "start"
    /\ input' = [start_initial_workers(
                    input, {p \in Paths : matches_path(p) /\ input.files[p] >= 0})
                 EXCEPT !.pc = "loop"]
    /\ UNCHANGED notInput

\* the threads and events that a new event may still add
Room == Len(input.workers) + Len(input.events) < MaxTailers

\* a program creates a file in the directory
FsCreate(path) ==
    /\ input.pc = "loop"
    /\ input.files[path] < 0
    /\ Room
    /\ input' = [input EXCEPT !.files[path] = 0,
                              !.events = Append(@, [kind |-> "Create", path |-> path])]
    /\ UNCHANGED notInput

\* a program appends a line to a file: the watcher of the directory and
\* the watcher of every FileWorker of the file report it
FsAppend(path) ==
    /\ input.pc = "loop"
    /\ input.files[path] >= 0
    /\ input.files[path] < MaxLines
    /\ Room
    /\ input' = [input EXCEPT
                    !.files[path] = @ + 1,
                    !.events = Append(@, [kind |-> "NoticeWrite", path |-> path]),
                    !.workers = [w \in DOMAIN @ |->
                                    IF @[w].path = path
                                    THEN [@[w] EXCEPT !.woken = TRUE] ELSE @[w]]]
    /\ UNCHANGED notInput

\* the loop of FileDiscovery::run: one event of the directory
DiscoveryEvent ==
    /\ input.pc = "loop"
    /\ input.events # <<>>
    /\ LET event == Head(input.events)
           rest == [input EXCEPT !.events = Tail(@)]
       IN  input' = IF matches_path(event.path)
                    THEN start_worker(rest, event.path, FALSE)
                    ELSE rest
    /\ UNCHANGED notInput

\* the loop of FileWorker::run after rx.recv(): every line up to the end
\* of the file is decoded, encoded and sent
WorkerRead(w) ==
    /\ input.pc = "loop"
    /\ w \in DOMAIN input.workers
    /\ input.workers[w].woken
    /\ LET worker == input.workers[w]
           len == input.files[worker.path]
       IN  input' = [input EXCEPT
                        !.workers[w] = [worker EXCEPT !.pos = len, !.woken = FALSE],
                        !.enqueued[worker.path] =
                            [i \in 1..MaxLines |->
                                IF worker.pos < i /\ i <= len THEN @[i] + 1 ELSE @[i]]]
    /\ UNCHANGED notInput

\* FileDiscovery::new: each file is absent or has some lines already
InitDiscovery ==
    /\ InitWith({c \in PipelineConfigs :
                    c.output_type = "debug" /\ c.queue_size = 1 /\ c.clients = 1})
    /\ NoFile
    /\ NoRedis
    /\ NoSplitter
    /\ NoEncoder
    /\ framing = [pc |-> "none"]
    /\ decoding = [pc |-> "none"]
    /\ \E fs \in [Paths -> -1..1] :
          input = [pc |-> "start", files |-> fs, events |-> <<>>, workers |-> <<>>,
                   enqueued |-> [p \in Paths |-> NoLines]]

NextDiscovery ==
    \/ DiscoveryStart
    \/ \E path \in Paths : FsCreate(path)
    \/ \E path \in Paths : FsAppend(path)
    \/ DiscoveryEvent
    \/ \E w \in 1..MaxTailers : WorkerRead(w)

SpecDiscovery == InitDiscovery /\ [][NextDiscovery]_vars

(***************************************************************************)
(* Properties of the queue and of the splitter threads.                    *)
(***************************************************************************)

\* the vectors of a log of <<worker, vector>> pairs
Lines(log) == [i \in 1..Len(log) |-> log[i][2]]

\* the vectors worker w has dequeued, in order
TakenBy(w) ==
    LET ByW(e) == e[1] = w IN Lines(SelectSeq(taken, ByW))

\* the vectors of connection p in a sequence of vectors
FromConn(seq, p) ==
    LET OfP(v) == v[1] = p IN SelectSeq(seq, OfP)

\* arrival numbers grow along the sequence
Increasing(seq) == \A i, j \in 1..Len(seq) : i < j => seq[i][2] < seq[j][2]

RECURSIVE IsSubseq(_, _)
\* a is b with some elements left out
IsSubseq(a, b) ==
    IF a = <<>> THEN TRUE
    ELSE IF b = <<>> THEN FALSE
    ELSE IF Head(a) = Head(b) THEN IsSubseq(Tail(a), Tail(b))
    ELSE IsSubseq(a, Tail(b))

\* C1: the queue never holds more than queue_size vectors, a sender that
\* finds it full cannot complete its send, and every vector whose send
\* completed is still queued or has been handed to a worker, in send order.
C1_QueueBounded ==
    /\ Len(queue) <= config.queue_size
    /\ \A p \in Conns :
         (spc[p] = "send" /\ Len(queue) = config.queue_size /\ ~ReceiverDropped)
            => ~ENABLED Send(p)
    /\ sent = Lines(taken) \o queue

\* a sender waits in front of a full queue
C1_Witness ==
    /\ Len(queue) = config.queue_size
    /\ \E p \in Conns : spc[p] = "send"
    /\ ~ReceiverDropped
    /\ Len(taken) > 0

\* C2: a frame that fails to decode or encode enqueues nothing and the
\* splitter reads on; a frame that decodes and encodes is enqueued exactly
\* once, and then the splitter reads on.
C2_OneVectorPerFrame ==
    [][\A p \in Conns :
         /\ (spc[p] = "handle" /\ spc'[p] = "read") => queue' = queue
         /\ (spc[p] = "handle" /\ spc'[p] # "handle") => spc'[p] \in {"read", "send", "killed"}
         /\ (spc[p] = "send" /\ spc'[p] \notin {"send", "killed"}) =>
               /\ queue' = Append(queue, reencoded[p])
               /\ spc'[p] = "read"]_vars

\* C3: each connection's vectors are enqueued in arrival order, a worker
\* writes what it dequeued in dequeue order, so every sink receives each
\* connection's vectors in arrival order.
C3_Order ==
    /\ \A p \in Conns : Increasing(FromConn(sent, p))
    /\ \A w \in Threads : IsSubseq(sink[w], TakenBy(w))
    /\ \A w \in Threads : \A p \in Conns : Increasing(FromConn(sink[w], p))

\* one connection, one TLS worker, and two records have reached the sink
C3_Witness ==
    /\ config.clients = 1
    /\ config.threads = 1
    /\ config.output_type = "tls"
    /\ Len(sink[1]) >= 2

\* the worker thread has ended
Exited(w) == wpc[w] \in {"exited", "panicked", "killed"}

\* C4: once every producer handle is dropped, every worker thread of every
\* sink type (file, debug, Kafka, TLS) eventually exits.
C4_WorkersExit ==
    Disconnected ~> (\A w \in Workers : Exited(w))

(***************************************************************************)
(* Properties of the TLS reconnect policy.                                 *)
(***************************************************************************)

\* C5: every sleep before a reconnect lasts between recovery_delay_init and
\* recovery_delay_max milliseconds.
C5_SleepWithinBounds ==
    \A w \in Workers :
        wpc[w] = "sleep" =>
            /\ config.recovery_delay_init <= SleepMs(w)
            /\ SleepMs(w) <= config.recovery_delay_max

\* C6 as stated: a completed handshake records last_recovery = now and
\* resets recovery_delay to recovery_delay_init.
C6_ResetOnSuccess ==
    [][\A w \in Threads :
         (wpc[w] = "handshake" /\ wpc'[w] = "lock") =>
            /\ last_recovery'[w] = now'
            /\ recovery_delay'[w] = config.recovery_delay_init * JitterScale]_vars

\* C6 amended: last_recovery = now is recorded when an attempt starts; a
\* completed handshake changes neither last_recovery nor recovery_delay; the
\* delay returns to recovery_delay_init only at the end of a session that
\* lasted more than recovery_probe_time.
C6_RecordedAtAttempt ==
    [][\A w \in Threads :
         /\ (wpc[w] = "select" /\ wpc'[w] = "connect") => last_recovery'[w] = now
         /\ (wpc[w] = "handshake" /\ wpc'[w] = "lock") =>
               /\ last_recovery'[w] = last_recovery[w]
               /\ recovery_delay'[w] = recovery_delay[w]
         /\ (recovery_delay'[w] < recovery_delay[w]) =>
               /\ wpc[w] = "session_end"
               /\ now - last_recovery[w] > config.recovery_probe_time
               /\ recovery_delay'[w] = config.recovery_delay_init * JitterScale]_vars

\* a handshake has completed while the delay was above recovery_delay_init
\* and after the clock had moved on since the attempt began
C6_Witness ==
    \E w \in Workers :
        /\ wpc[w] = "lock"
        /\ recovery_delay[w] > config.recovery_delay_init * JitterScale
        /\ now > last_recovery[w]

\* C7: a session end is followed by one sleep and the sleep by one
\* reconnect attempt; no attempt starts without a sleep before it and the
\* worker never stops retrying.
C7_SleepThenReconnect ==
    [][\A w \in Threads :
         /\ (wpc[w] = "session_end" /\ wpc'[w] # "session_end") => wpc'[w] = "sleep"
         /\ (wpc[w] = "sleep" /\ wpc'[w] # "sleep") => wpc'[w] = "select"
         /\ (wpc[w] # "select" /\ wpc'[w] = "select") => wpc[w] = "sleep"]_vars

(***************************************************************************)
(* Properties of the rotating file writer.                                 *)
(***************************************************************************)

\* the names a size-rotating file may give its files
SizeModeNames(rf) == {build_file_path(n) : n \in -1..(rf.max_files - 1)}

\* the write calls that have bytes in a file
WritesIn(content) == {content[i].id : i \in 1..Len(content)}

SizeRotatingWrite ==
    /\ last_write'.id = last_write.id + 1
    /\ is_size_triggered(rfile)
    /\ last_write'.rotated
    /\ last_write'.ok

C10_WriteAtomic ==
    (last_write.id > 0 /\ last_write.ok) =>
        /\ last_write.to \in DOMAIN files
        /\ Len(files[last_write.to]) > 0
        /\ files[last_write.to][Len(files[last_write.to])]
              = [id |-> last_write.id, n |-> last_write.len]
        /\ \A f \in DOMAIN files \ {last_write.to} :
              last_write.id \notin WritesIn(files[f])

\* a step that is one more call of RotatingFile::write, in time-enabled mode
TimeModeWrite ==
    /\ last_write'.id = last_write.id + 1
    /\ is_time_triggered(rfile)

\* the open file has expired, or the pending write does not fit any more
RotationDue ==
    \/ now >= rfile.next_rotation_time
    \/ rfile.max_size > 0 /\ rfile.current_size + last_write'.len > rfile.max_size

\* what C11 says of one step
TimeRotationStep ==
    /\ (TimeModeWrite /\ RotationDue) =>
          /\ rfile'.next_rotation_time = now + rfile.max_time
          /\ (last_write'.ok =>
                /\ rfile'.current_file = TimestampedName(rfile, now)
                /\ last_write'.to = TimestampedName(rfile, now)
                /\ rfile'.current_size = last_write'.len
                /\ TimestampedName(rfile, now) \in DOMAIN files')
    /\ (TimeModeWrite /\ ~RotationDue) =>
          /\ rfile'.next_rotation_time = rfile.next_rotation_time
          /\ rfile'.current_file = rfile.current_file
          /\ last_write'.to = rfile.current_file
          /\ rfile'.current_size = rfile.current_size + last_write'.len
          /\ DOMAIN files' = DOMAIN files
    /\ (last_write'.id = last_write.id) =>
          (rfile' = rfile /\ files' = files)

IsPrefix(a, b) == Len(a) <= Len(b) /\ SubSeq(b, 1, Len(a)) = a

\* what C12 says of one step
TimeModeKeepsFiles ==
    is_time_triggered(rfile) =>
        /\ \A f \in DOMAIN files :
              f \in DOMAIN files' /\ IsPrefix(files[f], files'[f])
        /\ \A f \in DOMAIN files' \ DOMAIN files :
              f = TimestampedName(rfile, now) /\ rfile'.current_file = f
        /\ rfile'.current_file # rfile.current_file =>
              rfile'.current_file \in {NoPath, TimestampedName(rfile, now)}

\* C12: in time-enabled mode a rotation only closes the open file and opens
\* the file named by the current timestamp: every file that exists stays
\* under its name and keeps every byte written to it, bytes are only
\* appended, and the only file that can appear is the one named by the
\* current timestamp. (That max_files does not bound the number of files is
\* shown by the reachable state C12_Witness.)
C12_TimeRotationKeepsFiles == [][TimeModeKeepsFiles]_vars

C12_Witness ==
    /\ is_time_triggered(rfile)
    /\ Cardinality(DOMAIN files) > rfile.max_files + 1
    /\ \A f \in DOMAIN files : files[f] # <<>>

(***************************************************************************)
(* Properties of the Redis input.                                          *)
(***************************************************************************)

\* C13: once the worker has performed its first BRPOPLPUSH, every item it
\* found in queue_key.tmp.N at startup has been moved back into queue_key.
C13_DrainedBeforeFirstPop == redis.pc # "none" /\ redis.popped => redis.found \subseteq redis.recovered

(***************************************************************************)
(* Properties of the splitters.                                            *)
(***************************************************************************)

\* the place of the first space after position p, 0 when there is none
FirstSpace(stream, p) ==
    LET at == {j \in (p + 1)..Len(stream) : stream[j] = "SP"}
    IN  IF at = {} THEN 0 ELSE CHOOSE j \in at : \A k \in at : j <= k

\* the bytes after position p up to the first space are a decimal number
DecimalPrefixAt(stream, p) ==
    /\ FirstSpace(stream, p) # 0
    /\ ParseOk(SubSeq(stream, p + 1, FirstSpace(stream, p) - 1))

\* the number announced by the decimal prefix after position p
AnnouncedAt(stream, p) ==
    ParseValue(SubSeq(stream, p + 1, FirstSpace(stream, p) - 1))

\* after position p the stream holds "<n> " and then n bytes of valid UTF-8
FrameAt(stream, p) ==
    /\ DecimalPrefixAt(stream, p)
    /\ FirstSpace(stream, p) + AnnouncedAt(stream, p) <= Len(stream)
    /\ IsUtf8(SubSeq(stream, FirstSpace(stream, p) + 1,
                     FirstSpace(stream, p) + AnnouncedAt(stream, p)))

\* C14 for a state: a loop that has ended, or that waits for bytes, did not
\* have "<n> " and n bytes of text in front of it; while the body of such
\* a frame is read, what is read and what is left to read are its n bytes
SyslenNoFrameLost ==
    splitter.kind = "syslen" =>
        /\ splitter.pc = "read" => splitter.pos = splitter.start
        /\ (splitter.pc = "done"
                /\ splitter.event \in {"eof", "invalid_length", "invalid_utf8"})
              => ~FrameAt(splitter.stream, splitter.start)
        /\ (splitter.pc = "body" /\ FrameAt(splitter.stream, splitter.start))
              => /\ splitter.pos + splitter.to_read
                       = FirstSpace(splitter.stream, splitter.start)
                           + AnnouncedAt(splitter.stream, splitter.start)
                 /\ splitter.line
                       = SubSeq(splitter.stream,
                                FirstSpace(splitter.stream, splitter.start) + 1,
                                splitter.pos)

\* C14 for a step that yields: behind "<n> " the frame yielded is one, it
\* is the n bytes behind the space, and the next prefix is read from the
\* byte behind them
SyslenOneFrame ==
    (/\ splitter.kind = "syslen"
     /\ DecimalPrefixAt(splitter.stream, splitter.start)
     /\ splitter'.frames # splitter.frames)
       => LET sp == FirstSpace(splitter.stream, splitter.start)
              n  == AnnouncedAt(splitter.stream, splitter.start)
          IN  /\ sp + n <= Len(splitter.stream)
              /\ splitter'.frames
                    = Append(splitter.frames,
                             SubSeq(splitter.stream, sp + 1, sp + n))
              /\ splitter'.pc = "read"
              /\ splitter'.pos = sp + n
              /\ splitter'.start = sp + n

\* C14 for a step: a prefix that ends with a space and is not a decimal
\* number ends the loop and yields nothing
SyslenBadPrefix ==
    (/\ splitter.kind = "syslen" /\ splitter.pc = "read"
     /\ FirstSpace(splitter.stream, splitter.pos) # 0
     /\ ~DecimalPrefixAt(splitter.stream, splitter.pos)
     /\ splitter' # splitter)
       => splitter'.pc = "done" /\ splitter'.frames = splitter.frames

ReadErrorStep ==
    splitter' # splitter =>
        /\ splitter'.event = "interrupted"
              => /\ splitter'.pc = splitter.pc
                 /\ splitter'.pos = splitter.pos
                 /\ splitter'.frames = splitter.frames
        /\ splitter'.event = "invalid_utf8"
              => /\ splitter'.pc = "read"
                 /\ splitter'.frames = splitter.frames
                 /\ splitter'.pos > splitter.start
        /\ splitter'.event \in {"would_block", "other"}
              => splitter'.pc = "done" /\ splitter'.frames = splitter.frames

\* C15: every splitter (line, nul, syslen) retries an interrupted read,
\* skips a record that is not UTF-8 and goes on with the next one, closes
\* the connection on would-block and ends on any other I/O error.
C15_ReadErrorClasses == [][ReadErrorStep]_vars

(***************************************************************************)
(* Properties of the mergers and of their choice.                          *)
(***************************************************************************)

\* a run of digits that is the decimal of a number: no leading zero
IsDecimal(s) == ParseOk(s) /\ (Len(s) = 1 \/ s[1] # "0")

\* C16: the syslen merger turns a body of L bytes into the ASCII decimal of
\* L + 1, one space, the L bytes of the body unchanged and one LF; the
\* length announced counts exactly the bytes behind the space.
C16_SyslenMerger ==
    (framing.pc = "framed" /\ framing.merger = "syslen") =>
        LET b  == framing.bytes
            L  == Len(framing.body)
            sp == FirstSpace(b, 0)
        IN  /\ sp # 0
            /\ IsDecimal(SubSeq(b, 1, sp - 1))
            /\ ParseValue(SubSeq(b, 1, sp - 1)) = L + 1
            /\ SubSeq(b, sp + 1, sp + L) = framing.body
            /\ Len(b) = sp + L + 1
            /\ b[Len(b)] = "LF"
            /\ ParseValue(SubSeq(b, 1, sp - 1)) = Len(b) - sp

C16_Witness ==
    /\ framing.pc = "framed" /\ framing.merger = "syslen"
    /\ Len(framing.body) = MaxBody
    /\ \E i \in 1..MaxBody : framing.body[i] = "LF"
    /\ FirstSpace(framing.bytes, 0) = 3

\* output.format and output.type as start() sees them
OutputFormat == map_or(framing.config.format, DEFAULT_OUTPUT_FORMAT)
OutputType ==
    map_or(framing.config.type, DEFAULT_OUTPUT_TYPE(framing.config.kafka_output))

C18_NoPanic ==
    /\ \A p \in Conns : spc[p] # "panicked"
    /\ \A w \in Threads : wpc[w] # "panicked"

(***************************************************************************)
(* Properties of the Records.                                              *)
(***************************************************************************)

\* the severity or level the input states, 256 and more for a text that
\* is a number too large for a u8
StatedLevel ==
    IF decoding.kind \in {"rfc5424", "rfc3164"} THEN {}
    ELSE IF decoding.kind = "gelf"
    THEN IF decoding.input.level.type = "number" THEN {decoding.input.level.n}
         ELSE {}
    ELSE IF decoding.kind = "ltsv"
    THEN IF decoding.input.has_level /\ ParseOk(decoding.input.level)
         THEN {ParseValue(decoding.input.level)} ELSE {}
    ELSE {decoding.input.severity}

\* C19: a Record that a decoder or the capnp splitter produces has a
\* severity of at most 7 and a facility of at most 31 where it has them,
\* and an input that states a severity or level out of that range yields
\* no Record that carries it.
C19_SeverityFacilityRange ==
    (decoding.pc = "done" /\ decoding.result.ok) =>
        /\ \A s \in decoding.result.severity : s \in 0..7
        /\ \A f \in decoding.result.facility : f \in 0..31
        /\ \A l \in StatedLevel :
              l \notin 0..7 => l \notin decoding.result.severity

C19_Witness ==
    /\ decoding.pc = "done" /\ decoding.result.ok
    /\ decoding.kind = "rfc5424"
    /\ decoding.input.pri = <<"2", "5", "5">>
    /\ decoding.result.facility = {31} /\ decoding.result.severity = {7}

\* C20: a Record that a decoder produces has ts > 0; an input with a
\* timestamp of zero or less is rejected.
C20_PositiveTimestamp ==
    (decoding.pc = "done" /\ decoding.result.ok) =>
        ~decoding.result.ts.nan /\ decoding.result.ts.v > 0

\* C21: a Record that a decoder produces has a hostname that is not empty;
\* an input whose hostname is empty is rejected.
C21_HostnameNotEmpty ==
    (decoding.pc = "done" /\ decoding.result.ok) => decoding.result.hostname # ""

(***************************************************************************)
(* Properties of the RFC 5424 encoder and decoder together.                *)
(***************************************************************************)

\* C22: for a Record whose severity is set, with or without a facility,
\* decoding its RFC 5424 encoding yields a Record of the same severity.
C22_SeverityRoundTrip ==
    (/\ decoding.pc \in {"done", "rejected"}
     /\ decoding.from = "record"
     /\ decoding.trail[1].severity # {})
       => /\ decoding.pc = "done"
          /\ decoding.trail[3].severity = decoding.trail[1].severity

\* the fields of a Record that C23 is about
HeaderAndSd(record) ==
    <<record.facility, record.severity, record.hostname, record.appname,
      record.procid, record.msgid, record.sd>>

\* C23: decoding an RFC 5424 line and encoding the Record again gives a
\* line that decodes to the same PRI, hostname, appname, procid, msgid and
\* structured data blocks, ids and pairs in order, also when a value holds
\* an escaped quote, backslash or closing bracket.
C23_DecodeEncodeKeepsFields ==
    (/\ decoding.pc \in {"done", "rejected"}
     /\ decoding.from = "line"
     /\ Len(decoding.trail) >= 3)
       => /\ decoding.pc = "done"
          /\ HeaderAndSd(decoding.trail[4]) = HeaderAndSd(decoding.trail[2])

(***************************************************************************)
(* Properties of the GELF and the Cap'n Proto encoders.                    *)
(***************************************************************************)

Encoded(encoder) == encoding.pc = "done" /\ encoding.encoder = encoder

Out == CHOOSE x \in encoding.out : TRUE

\* C24: whatever the structured data pairs of the Record and the
\* configured extras, the object the GELF encoder writes has "version"
\* with the string 1.1 and the keys "host", "short_message" and "timestamp"
C24_GelfMandatoryFields ==
    Encoded("gelf") =>
        /\ {"version", "host", "short_message", "timestamp"} \subseteq DOMAIN Out
        /\ Out["version"].type = "String"
        /\ Out["version"].v = "1.1"

\* the first block of the Record's structured data
FirstBlock == (CHOOSE x \in encoding.record.sd : TRUE)[1]

SeveralBlocks ==
    /\ encoding.record.sd # {}
    /\ Len(CHOOSE x \in encoding.record.sd : TRUE) >= 2

\* C25 as stated: the message has the first block's sd_id and the pairs of
\* every block of the Record
C25_AllBlocksFlattened ==
    (Encoded("capnp") /\ SeveralBlocks) =>
        /\ Out.sd_id = FirstBlock.sd_id
        /\ Out.pairs = capnp_pairs(AllPairs(CHOOSE x \in encoding.record.sd : TRUE))

\* C25: the message has the sd_id and the pairs of the first block only, in
\* their order; the pairs of the later blocks are not encoded
C25_FirstBlockOnly ==
    (Encoded("capnp") /\ SeveralBlocks) =>
        /\ Out.sd_id = FirstBlock.sd_id
        /\ Len(Out.pairs) = Len(FirstBlock.pairs)
        /\ \A i \in 1..Len(Out.pairs) :
              /\ Out.pairs[i].key = FirstBlock.pairs[i][1]
              /\ Out.pairs[i].value.v = FirstBlock.pairs[i][2].v

C25_Witness ==
    /\ Encoded("capnp")
    /\ SeveralBlocks
    /\ (CHOOSE x \in encoding.record.sd : TRUE)[2].pairs # <<>>
    /\ Len(Out.pairs) = 2

(***************************************************************************)
(* Properties of the UDP input.                                            *)
(***************************************************************************)

Handled == input.pc = "recv" /\ input.res # {}

Datagram == CHOOSE d \in input.datagram : TRUE

Res == CHOOSE r \in input.res : TRUE

\* a zlib or gzip stream of the length at which the magic bytes are looked for
Compressed(d) ==
    \/ d.format = "zlib" /\ d.len >= 8
    \/ d.format = "gzip" /\ d.len >= 24

\* C26: what is handed to the decoder after decompression is never more
\* than MAX_COMPRESSION_RATIO times MAX_UDP_PACKET_SIZE bytes, and a
\* datagram that expands to more is neither decoded nor enqueued
C26_DecompressionCapped ==
    (Handled /\ Compressed(Datagram)) =>
        /\ \A size \in Res.decoded :
              size <= MAX_UDP_PACKET_SIZE * MAX_COMPRESSION_RATIO
        /\ SizeOf(Datagram.payload) > MAX_UDP_PACKET_SIZE * MAX_COMPRESSION_RATIO
              => Res.decoded = {} /\ Res.out = {}

\* a line of the standard shape: month, day, time, host name and message,
\* without priority, year or time zone
\* the day of the month follows the month after one space, or after two
\* when it has one digit, and single spaces part the words of the message
StandardShape(line) ==
    /\ line[1] \in MonthWords
    /\ \A i \in 1..Len(line) : line[i] \notin TzWords
    /\ \A i \in 1..(Len(line) - 1) :
          (line[i] = "SP" /\ line[i + 1] = "SP") => (i = 2 /\ line[4] = "6")
    /\ line[3] = "6" => line[2] # "SP"

\* C27: such a line, whether it came as it is or as a whole zlib or gzip
\* stream, is enqueued byte for byte by an encoder that prepends no timestamp
C27_Rfc3164Identity ==
    (/\ Handled
     /\ StandardShape(Datagram.payload)
     /\ input.header_time_format = {}
     /\ Datagram.format = "raw" \/ (Compressed(Datagram) /\ ~Datagram.corrupted))
       => Res.out = {Datagram.payload}

(***************************************************************************)
(* Properties of the file input.                                           *)
(***************************************************************************)

TailersOf(path) == {w \in DOMAIN input.workers : input.workers[w].path = path}

\* C28: a file that matches input.src never has more than one FileWorker,
\* and no line of it is enqueued more than once
C28_OneTailerPerFile ==
    input.pc = "loop" =>
        \A path \in Paths :
            /\ Cardinality(TailersOf(path)) <= 1
            /\ \A i \in 1..MaxLines : input.enqueued[path][i] <= 1

(***************************************************************************)
(* Properties of the choice of the TLS peer.                               *)
(***************************************************************************)

\* a worker has left the mutex with its peer and not yet come back
Selected(w) == wpc[w] \in {"connect", "handshake", "session_end", "sleep"}

\* the step is a selection by some worker
SelectStep == \E w \in Threads : wpc[w] = "select" /\ wpc'[w] # "select"

PeerIndexInRange ==
    /\ cluster.connect \in Shuffles(config.connect)
    /\ (\E w \in Threads : Selected(w)) =>
          /\ 0 <= cluster.idx
          /\ cluster.idx < config.connect
          /\ cluster.connect[cluster.idx + 1] \in 1..config.connect

PeerIndexAdvances ==
    SelectStep =>
        /\ \/ cluster'.idx = cluster.idx + 1 /\ cluster'.connect = cluster.connect
           \/ cluster.idx + 1 >= config.connect /\ cluster'.idx = 0
        /\ config.connect > 0 => cluster'.idx < config.connect

\* C29: whatever the interleaving of the workers, a selection adds one to
\* the index or, past the end of the list, shuffles the list and sets the
\* index to 0; after a selection the index is within the list, the peer it
\* points at is a configured one, and the list is always a permutation of
\* the configured peers
C29_PeerRotation == []PeerIndexInRange /\ [][PeerIndexAdvances]_vars

\* two workers have selected one after the other and the second selection
\* went past the end of a list of two peers
C29_Witness ==
    /\ config.threads = 2
    /\ config.connect = NPeers
    /\ \A w \in Threads : Selected(w)
    /\ cluster.idx = 0

(***************************************************************************)
(* Properties of the recovery delay at the end of a TLS session.           *)
(***************************************************************************)

\* worker w leaves the end of a session in this step
SessionEndStep(w) == wpc[w] = "session_end" /\ wpc'[w] # "session_end"

ProbeTimeElapsed(w) == now - last_recovery[w] > config.recovery_probe_time

\* the delay is reset, and the sleep that follows is recovery_delay_init
DelayReset(w) ==
    /\ recovery_delay'[w] = config.recovery_delay_init * JitterScale
    /\ Round(recovery_delay'[w]) = config.recovery_delay_init

\* the delay does not decrease and grows to at most twice its value
DelayGrows(w) ==
    /\ recovery_delay'[w] >= recovery_delay[w]
    /\ recovery_delay'[w] <= 2 * recovery_delay[w]

\* the delay does not grow beyond recovery_delay_max
DelayUpToMax(w) ==
    recovery_delay[w] <= config.recovery_delay_max * JitterScale
       => recovery_delay'[w] <= config.recovery_delay_max * JitterScale

SessionEndDelay(w) ==
    SessionEndStep(w) =>
        IF ProbeTimeElapsed(w) THEN DelayReset(w)
        ELSE DelayGrows(w) /\ DelayUpToMax(w)

\* C30: at the end of a session a worker resets its delay to
\* recovery_delay_init, which is then exactly the next sleep, when more
\* than recovery_probe_time has passed since last_recovery; otherwise the
\* delay does not decrease, at most doubles and stays within
\* recovery_delay_max
C30_SessionEndDelay == [][\A w \in Threads : SessionEndDelay(w)]_vars

(***************************************************************************)
(* Properties of the write of a TLS worker.                                *)
(***************************************************************************)

\* worker w holds a vector for its connection and this step neither
\* writes it nor ends the session: the write was interrupted, or another
\* thread took the step
NotWritten(w) ==
    /\ config.output_type = "tls"
    /\ wpc[w] = "write"
    /\ wpc'[w] # "session_end"
    /\ sink'[w] = sink[w]

ReceiverMutex ==
    /\ \A w \in Threads : wpc[w] = "recv" => arx = w
    /\ \A w \in Threads : arx = w => wpc[w] \in {"recv", "killed"}
    /\ \A v, w \in Threads : (wpc[v] = "recv" /\ wpc[w] = "recv") => v = w

\* no vector was handed out twice, to one worker or to two
TakenOnce ==
    \A i, j \in 1..Len(taken) : taken[i][2] = taken[j][2] => i = j

\* the vectors handed out so far are the first ones that were enqueued
NoneSkipped ==
    /\ Len(taken) <= Len(sent)
    /\ \A i \in 1..Len(taken) : taken[i][2] = sent[i]

\* C32: with several workers behind the mutex of the receiver, every
\* enqueued vector is dequeued by one worker only and none is passed over
C32_DequeuedOnce == ReceiverMutex /\ TakenOnce /\ NoneSkipped

\* two workers have each taken a vector of the queue
C32_Witness ==
    /\ config.threads = 2
    /\ Len(taken) >= 2
    /\ taken[1][1] # taken[2][1]

(***************************************************************************)
(* Properties of the TLS worker and the queue.                             *)
(***************************************************************************)

\* worker w has no connection on which the handshake has completed
NoSession(w) == wpc[w] \in {"select", "connect", "handshake", "session_end", "sleep"}

\* worker w is inside the loop of handle_connection
InSession(w) == wpc[w] \in {"lock", "recv", "write", "flush"}

\* worker w enters the loop in this step
SessionOpens(w) == NoSession(w) /\ InSession(w)'

\* a vector leaves the queue in this step
Dequeues == Len(taken') > Len(taken)

DequeuesInSession ==
    /\ \A w \in Threads : SessionOpens(w) => wpc[w] = "handshake" /\ wpc'[w] = "lock"
    /\ Dequeues => InSession(taken'[Len(taken')][1])
    /\ (\A w \in Threads : wpc[w] # "none" => NoSession(w)) =>
          /\ taken' = taken
          /\ IsPrefix(queue, queue')

\* C33: a TLS worker enters the loop that dequeues only from a completed
\* handshake and dequeues only inside that loop; while every worker is
\* selecting, connecting, handshaking, ending a session or sleeping, no
\* vector leaves the queue
C33_DequeueOnlyConnected ==
    [][config.output_type = "tls" => DequeuesInSession]_vars

\* the queue is full, a producer waits to send and the worker sleeps after
\* a session that has ended
C33_Witness ==
    /\ config.output_type = "tls"
    /\ Len(queue) = config.queue_size
    /\ \E p \in Conns : spc[p] = "send"
    /\ \A w \in Threads : wpc[w] # "none" => wpc[w] = "sleep"

(***************************************************************************)
(* Progress of the pipeline.                                               *)
(***************************************************************************)

\* the vectors the connections can produce
Vectors == Conns \X (1..MaxFrames)

Range(seq) == {seq[i] : i \in 1..Len(seq)}

\* worker w has dropped a vector it had dequeued: a write of it failed
Lost(w) == bytes[w] = NoBytes /\ Len(TakenBy(w)) > Len(sink[w])

\* a session of worker w has ended though the queue was not closed and
\* drained: the peer refused the connection or the handshake
Refused(w) == wpc[w] = "session_end" /\ ~(Disconnected /\ queue = <<>>)

\* no sink has refused anything so far
SinkAccepts ==
    \A w \in Workers : wpc[w] \notin {"panicked", "killed"} /\ ~Lost(w) /\ ~Refused(w)

Written(v) == \E w \in Threads : v \in Range(sink[w])

\* the guard of the receiver is never held by a worker that writes
NoGuardWhileWriting == \A w \in Threads : wpc[w] \in {"write", "flush"} => arx # w

InTmp(item) == \E i \in 1..Len(redis.tmp) : redis.tmp[i] = item

\* the item is an element of queue_key.tmp.N after the step
InTmpNext(item) == \E i \in 1..Len(redis'.tmp) : redis'.tmp[i] = item

\* the worker holds a line it has popped and not yet removed
HoldsLine == redis.pc \in {"handle", "lrem"}

\* the only steps that take an item out of queue_key.tmp.N are the startup
\* drain, which puts it back into queue_key, and the LREM of a handled line
LeavesTmpHandled ==
    \A i \in 1..Len(redis.tmp) :
        ~InTmpNext(redis.tmp[i]) =>
            \/ redis.pc = "drain" /\ \E j \in 1..Len(redis'.queue) : redis'.queue[j] = redis.tmp[i]
            \/ /\ redis.pc = "lrem"
               /\ redis.tmp[i] = redis.line
               /\ \E j \in 1..Len(redis.handled) : redis.handled[j] = redis.line.id

\* an item the worker takes out of queue_key is in queue_key.tmp.N at once
PoppedIntoTmp ==
    redis.pc = "pop" =>
        \A i \in 1..Len(redis.queue) :
            (\A j \in 1..Len(redis'.queue) : redis'.queue[j] # redis.queue[i]) => InTmpNext(redis.queue[i])

\* a worker that stops while it holds a line leaves the line in the list
StoppedKeepsLine == HoldsLine /\ redis'.pc = "exited" => InTmpNext(redis.line)

\* C35: an item popped by BRPOPLPUSH stays in queue_key.tmp.N until the
\* LREM that follows its handling, also when the worker stops before it
C35_HeldInTmpUntilHandled ==
    /\ [](redis.pc # "none" /\ HoldsLine => InTmp(redis.line))
    /\ [][redis.pc # "none" => LeavesTmpHandled /\ PoppedIntoTmp /\ StoppedKeepsLine]_vars

\* the LREM failed: the worker has stopped, the handled line is in the list
C35_Witness ==
    /\ redis.pc = "exited"
    /\ redis.line.id # 0
    /\ \E j \in 1..Len(redis.handled) : redis.handled[j] = redis.line.id
    /\ InTmp(redis.line)

(***************************************************************************)
(* C36: in size-only mode the files base.{K-1} .. base.0, base read in     *)
(* that order hold a contiguous suffix of the vectors written.             *)
(***************************************************************************)

\* what a file holds, nothing when it does not exist
ContentOf(fs, path) == IF path \in DOMAIN fs THEN fs[path] ELSE <<>>

RECURSIVE Concatenated(_, _)
\* base.n, base.{n-1} .. base.0, base one after the other
Concatenated(fs, n) ==
    IF n < 0 THEN ContentOf(fs, Basename)
    ELSE ContentOf(fs, build_file_path(n)) \o Concatenated(fs, n - 1)

\* s is what is left of t when some of its first elements are taken away
IsSuffix(s, t) ==
    /\ Len(s) <= Len(t)
    /\ SubSeq(t, Len(t) - Len(s) + 1, Len(t)) = s

\* a step that is one more call of RotatingFile::write, in size-only mode
SizeModeWrite ==
    /\ last_write'.id = last_write.id + 1
    /\ is_size_triggered(rfile)

\* C36: every write that returns Ok puts its whole vector at the end of the
\* concatenation base.{K-1} .. base.0, base and takes away nothing but
\* vectors at its start; a write that returns Err adds nothing. From the
\* empty directory this keeps the concatenation a contiguous suffix of the
\* vectors written, in the order of the writes.
C36_ContiguousSuffix ==
    [][SizeModeWrite =>
         LET before == Concatenated(files, rfile.max_files - 1)
             after == Concatenated(files', rfile.max_files - 1)
             vector == [id |-> last_write'.id, n |-> last_write'.len]
         IN  IF last_write'.ok
             THEN after # <<>> /\ IsSuffix(after, Append(before, vector))
             ELSE IsSuffix(after, before)
      ]_vars

(***************************************************************************)
(* C37: what SyslenMerger frames, the syslen splitter splits back.         *)
(***************************************************************************)

\* the frames the claim expects: every vector followed by one line feed
ExpectedFrames == [i \in 1..Len(framing.bodies) |-> Append(framing.bodies[i], "LF")]

\* no read of the connection fails
NoReadError == splitter.event \notin ReadErrors

\* the frames handed over so far are the first of the expected ones
FramesInOrder ==
    /\ Len(splitter.frames) <= Len(framing.bodies)
    /\ splitter.frames = SubSeq(ExpectedFrames, 1, Len(splitter.frames))

\* the splitter has left its loop at the end of the input
SplitterAtEof ==
    /\ splitter.pc = "done"
    /\ splitter.event = "eof"
    /\ splitter.pos = Len(splitter.stream)

\* C37: the concatenation of the SyslenMerger framings of a sequence of
\* vectors is split into one frame per vector, in order, each the vector
\* followed by one line feed; when no read fails the splitter hands over
\* all of them, reaches the end of the input and returns.
C37_SyslenRoundTrip ==
    /\ [](framing.pc = "closed" => FramesInOrder)
    /\ []NoReadError =>
          <>[](framing.pc = "closed" /\ SplitterAtEof /\ splitter.frames = ExpectedFrames)

C37_Witness ==
    /\ framing.pc = "closed"
    /\ SplitterAtEof
    /\ Len(framing.bodies) = MaxVectors
    /\ splitter.frames = ExpectedFrames
    /\ framing.bodies[1] = <<"1", "SP">>
    /\ framing.bodies[2] = <<"LF", "1">>

(***************************************************************************)
(* C38: the first connection attempts after startup go to different peers. *)
(***************************************************************************)

\* C38: with N peers configured, the first N peers that the workers select
\* after startup are N different ones.
C38_FirstAttemptsDistinct ==
    config.output_type = "tls" =>
        \A i, j \in 1..Len(attempts) : i # j => attempts[i] # attempts[j]

(***************************************************************************)
(* C39: a coalescing Kafka worker passes on everything it dequeues.        *)
(***************************************************************************)

RECURSIVE DequeuedBy(_, _)
\* the vectors worker w took from the queue, among the first n taken
DequeuedBy(w, n) ==
    IF n = 0 THEN <<>>
    ELSE IF taken[n][1] = w THEN Append(DequeuedBy(w, n - 1), taken[n][2])
    ELSE DequeuedBy(w, n - 1)

Coalescing == config.output_type = "kafka" /\ config.coalesce > 1

\* worker w has left run_coalesce because the queue is closed
Returned(w) == wpc[w] = "exited"

\* what the producer got from w is the start of what w dequeued, in full
\* batches; once w has returned it is all of it
AllPassedInOrder ==
    \A w \in Workers :
        /\ Len(sink[w]) <= Len(DequeuedBy(w, Len(taken)))
        /\ sink[w] = SubSeq(DequeuedBy(w, Len(taken)), 1, Len(sink[w]))
        /\ Len(sink[w]) % config.coalesce = 0 \/ Returned(w)
        /\ Returned(w) => sink[w] = DequeuedBy(w, Len(taken))

\* C39: with kafka_coalesce = N > 1 the vectors a worker dequeues reach the
\* producer once each and in dequeue order, N at a time, and a worker that
\* returns because the queue is closed has passed on the partial batch it
\* had buffered.
C39_CoalescedAllPassed == Coalescing => AllPassedInOrder

====
